---------------------------- MODULE Spec2Model ----------------------------
(***************************************************************************)
(* Model of bach's Savepoints registry (src/bach/bach/savepoints.py).      *)
(*                                                                         *)
(* A Savepoints object is an insertion-ordered dict name -> SavepointEntry.*)
(* It is modelled as a sequence of entries, one per name, in insertion     *)
(* order.  The written_to_db field of an entry is a mutable Python set: it *)
(* is modelled as a location in `heap`, so that in-place updates and       *)
(* sharing between objects are visible.                                    *)
(***************************************************************************)
EXTENDS Integers, Sequences, FiniteSets, TLC

\* ------------------------------------------------------------------ bounds
\* Number of SqlModel nodes a DataFrame can have as base_node.
NumNodes == 3

\* --------------------------------------------------------------- universes
Regs == {1, 2}
Names == {"a", "b", "c"}
\* Other strings a caller may pass as a name.
OddNames == {"A_1", "a-b", "a\n", ""}
Nodes == 1 .. NumNodes
\* engine.url of the engines the registries are executed against
Urls == {"db1", "db2"}

\* sql_models.model.Materialization, as far as the spec names its members.
Materialization == {"QUERY", "TABLE", "VIEW", "VIRTUAL"}

\* A DataFrame snapshot, reduced to what the registry reads: its base_node.
DataFrame == [base_node : Nodes]

\* DataFrame.copy(): a new object equal to the original.
CopyDf(df) == [base_node |-> df.base_node]

\* The SqlModel graph the DataFrames are built on: node n selects from n-1.
NodeReferences(n) == IF n = 1 THEN {} ELSE {n - 1}

RECURSIVE Ancestors(_)
Ancestors(n) ==
    NodeReferences(n) \cup UNION {Ancestors(m) : m \in NodeReferences(n)}

\* Locations of written_to_db sets.  The set created for the entry `name`
\* of registry r lives at <<r, name>>.
Locs == Regs \X (Names \cup OddNames)
NewSet(r, name) == <<r, name>>

None == "None"

VARIABLES
    entries,    \* entries[r]: Savepoints._entries of registry r, in dict order
    heap,       \* heap[l]: content of the written_to_db set at location l
    pc,         \* position of the running execute_sql call, or "idle"
    frame,      \* locals of the running execute_sql call
    conn,       \* calls made on the engine by the current / latest execute_sql
    before,     \* heap as it was when the current / latest execute_sql began
    last,       \* latest call: [op, result]
    ret,        \* value returned by the latest call, None if none
    applied     \* the latest call on an Expression or a Series: [fn, ...]

vars == <<entries, heap, pc, frame, conn, before, last, ret, applied>>

\* ---------------------------------------------------------------- helpers
SeqToSet(s) == {s[i] : i \in 1 .. Len(s)}

NamesOf(es) == {es[i].name : i \in 1 .. Len(es)}

\* self._entries[name]
EntryOf(es, name) == CHOOSE e \in SeqToSet(es) : e.name = name

IndexOf(es, name) == CHOOSE i \in 1 .. Len(es) : es[i].name = name

\* self._entries[name] = entry: an existing key keeps its place in the dict,
\* a new key goes to the end.
SetEntry(es, name, entry) ==
    IF name \in NamesOf(es)
    THEN [es EXCEPT ![IndexOf(es, name)] = entry]
    ELSE Append(es, entry)

\* del self._entries[name]
DelEntry(es, name) ==
    LET i == IndexOf(es, name)
    IN  SubSeq(es, 1, i - 1) \o SubSeq(es, i + 1, Len(es))

SavepointEntry(name, df, mat, loc) ==
    [name |-> name, df_original |-> df, materialization |-> mat,
     written_to_db |-> loc]

\* The written_to_db content of the entry `name` of registry r.
Written(r, name) == heap[EntryOf(entries[r], name).written_to_db]

NoFrame == [self |-> 0, engine |-> None, overwrite |-> FALSE, sql_statements |-> <<>>,
            pos |-> 0, result_created |-> <<>>, result_data |-> {}]

\* Registries without entries, no execute_sql called.
NoSavepoints ==
    /\ entries = [r \in Regs |-> <<>>]
    /\ heap = [l \in Locs |-> {}]
    /\ pc = "idle"
    /\ frame = NoFrame
    /\ conn = <<>>
    /\ before = None

Init ==
    /\ NoSavepoints
    /\ last = [op |-> "init", result |-> "ok"]
    /\ ret = None
    /\ applied = None

\* What every call that is not execute_sql leaves behind.
Done(op, result) ==
    /\ last' = [op |-> op, result |-> result]
    /\ pc' = "idle"
    /\ frame' = NoFrame
    /\ conn' = <<>>
    /\ before' = None
    /\ ret' = None

\* --------------------------------------------------- Savepoints.add_savepoint
\* The characters of the strings that are passed as names.
Chars(name) ==
    CASE name = "a"    -> <<"a">>
      [] name = "b"    -> <<"b">>
      [] name = "c"    -> <<"c">>
      [] name = "A_1"  -> <<"A", "_", "1">>
      [] name = "a-b"  -> <<"a", "-", "b">>
      [] name = "a\n"  -> <<"a", "\n">>
      [] name = ""     -> <<>>

\* The characters of the class [a-zA-Z0-9_] among those of the model.
WordChars == {"a", "b", "c", "A", "_", "1"}

\* re.match('^[a-zA-Z0-9_]+$', name) is not None: some prefix of one or more
\* characters of the class ends where '$' matches, which without
\* re.MULTILINE is at the end of the string and also just before a newline
\* that is the last character of the string.
NameMatches(name) ==
    \A cs \in {Chars(name)} :
        \E k \in 1 .. Len(cs) :
            /\ \A i \in 1 .. k : cs[i] \in WordChars
            /\ \/ k = Len(cs)
               \/ k = Len(cs) - 1 /\ cs[Len(cs)] = "\n"

\* add_savepoint that replaces an entry of the same name instead of
\* comparing with it.
add_savepoint_replacing(r, name, df, materialization) ==
    /\ pc = "idle"
    /\ IF name = None \/ ~NameMatches(name)
       THEN /\ Done("add_savepoint", "ValueError")
            /\ UNCHANGED <<entries, heap>>
       ELSE /\ entries' = [entries EXCEPT ![r] =
                    SetEntry(@, name,
                        SavepointEntry(name, CopyDf(df), materialization,
                                       NewSet(r, name)))]
            /\ heap' = [heap EXCEPT ![NewSet(r, name)] = {}]
            /\ Done("add_savepoint", "ok")

add_savepoint(r, name, df, materialization) ==
    /\ pc = "idle"
    /\ IF name = None \/ ~NameMatches(name)
       THEN /\ Done("add_savepoint", "ValueError")
            /\ UNCHANGED <<entries, heap>>
       ELSE IF name \in NamesOf(entries[r])
       THEN LET existing == EntryOf(entries[r], name)
            IN  /\ IF \/ existing.df_original # df
                      \/ existing.materialization # materialization
                   THEN Done("add_savepoint", "ValueError")
                   ELSE Done("add_savepoint", "ok")
                /\ UNCHANGED <<entries, heap>>
       ELSE /\ entries' = [entries EXCEPT ![r] =
                    SetEntry(@, name,
                        SavepointEntry(name, CopyDf(df), materialization,
                                       NewSet(r, name)))]
            /\ heap' = [heap EXCEPT ![NewSet(r, name)] = {}]
            /\ Done("add_savepoint", "ok")

\* ------------------------------------------------ Savepoints.update_savepoint
\* update_savepoint that keeps the written_to_db set of the entry.
update_savepoint_keeping(r, name, materialization) ==
    /\ pc = "idle"
    /\ IF name \notin NamesOf(entries[r])
       THEN /\ Done("update_savepoint", "KeyError")
            /\ UNCHANGED <<entries, heap>>
       ELSE LET current == EntryOf(entries[r], name)
            IN  /\ entries' = [entries EXCEPT ![r] =
                        SetEntry(@, name,
                            SavepointEntry(current.name, current.df_original,
                                           materialization,
                                           current.written_to_db))]
                /\ heap' = heap
                /\ Done("update_savepoint", "ok")

update_savepoint(r, name, materialization) ==
    /\ pc = "idle"
    /\ IF name \notin NamesOf(entries[r])
       THEN /\ Done("update_savepoint", "KeyError")
            /\ UNCHANGED <<entries, heap>>
       ELSE LET current == EntryOf(entries[r], name)
            IN  IF current.materialization = materialization
                THEN /\ Done("update_savepoint", "ok")
                     /\ UNCHANGED <<entries, heap>>
                ELSE /\ entries' = [entries EXCEPT ![r] =
                            SetEntry(@, name,
                                SavepointEntry(current.name,
                                               current.df_original,
                                               materialization,
                                               NewSet(r, name)))]
                     /\ heap' = [heap EXCEPT ![NewSet(r, name)] = {}]
                     /\ Done("update_savepoint", "ok")

\* ------------------------------------------------ Savepoints.remove_savepoint
\* remove_savepoint that deletes the oldest entry, whatever its name.
remove_savepoint_first(r, name) ==
    /\ pc = "idle"
    /\ IF name \notin NamesOf(entries[r])
       THEN /\ Done("remove_savepoint", "KeyError")
            /\ UNCHANGED <<entries, heap>>
       ELSE /\ entries' = [entries EXCEPT ![r] = Tail(@)]
            /\ heap' = [heap EXCEPT ![entries[r][1].written_to_db] = {}]
            /\ Done("remove_savepoint", "ok")

remove_savepoint(r, name) ==
    /\ pc = "idle"
    /\ IF name \notin NamesOf(entries[r])
       THEN /\ Done("remove_savepoint", "KeyError")
            /\ UNCHANGED <<entries, heap>>
       ELSE /\ entries' = [entries EXCEPT ![r] = DelEntry(@, name)]
            \* the set of the deleted entry is garbage
            /\ heap' = [heap EXCEPT
                            ![EntryOf(entries[r], name).written_to_db] = {}]
            /\ Done("remove_savepoint", "ok")

\* ---------------------------------------------------------- Savepoints.merge
\* The loop of merge from the i-th entry of other on: es and hp are the
\* entries of self and the heap as the loop has left them so far.
\* The loop of merge, taking the written_to_db of other for a name both
\* registries hold instead of the union.
RECURSIVE MergeLoop_taking(_, _, _, _, _)
MergeLoop_taking(r, es, hp, oes, i) ==
    IF i > Len(oes)
    THEN [entries |-> es, heap |-> hp, raised |-> FALSE]
    ELSE LET entry == oes[i]
             name  == entry.name
         IN  IF name \in NamesOf(es)
             THEN LET existing == EntryOf(es, name)
                  IN  IF \/ existing.df_original # entry.df_original
                         \/ existing.materialization # entry.materialization
                      THEN [entries |-> es, heap |-> hp, raised |-> TRUE]
                      ELSE MergeLoop_taking(r, es,
                               [hp EXCEPT ![existing.written_to_db] =
                                              hp[entry.written_to_db]],
                               oes, i + 1)
             ELSE MergeLoop_taking(r,
                      SetEntry(es, name,
                          SavepointEntry(name, CopyDf(entry.df_original),
                                         entry.materialization,
                                         NewSet(r, name))),
                      [hp EXCEPT ![NewSet(r, name)] =
                                     hp[entry.written_to_db]],
                      oes, i + 1)

\* The loop of merge, giving a new entry the written_to_db set of other's
\* entry itself, not a copy of it.
RECURSIVE MergeLoop_sharing(_, _, _, _, _)
MergeLoop_sharing(r, es, hp, oes, i) ==
    IF i > Len(oes)
    THEN [entries |-> es, heap |-> hp, raised |-> FALSE]
    ELSE LET entry == oes[i]
             name  == entry.name
         IN  IF name \in NamesOf(es)
             THEN LET existing == EntryOf(es, name)
                  IN  IF \/ existing.df_original # entry.df_original
                         \/ existing.materialization # entry.materialization
                      THEN [entries |-> es, heap |-> hp, raised |-> TRUE]
                      ELSE MergeLoop_sharing(r, es,
                               [hp EXCEPT ![existing.written_to_db] =
                                              @ \cup hp[entry.written_to_db]],
                               oes, i + 1)
             ELSE MergeLoop_sharing(r,
                      SetEntry(es, name,
                          SavepointEntry(name, CopyDf(entry.df_original),
                                         entry.materialization,
                                         entry.written_to_db)),
                      hp, oes, i + 1)

RECURSIVE MergeLoop(_, _, _, _, _)
MergeLoop(r, es, hp, oes, i) ==
    IF i > Len(oes)
    THEN [entries |-> es, heap |-> hp, raised |-> FALSE]
    ELSE LET entry == oes[i]
             name  == entry.name
         IN  IF name \in NamesOf(es)
             THEN LET existing == EntryOf(es, name)
                  IN  IF \/ existing.df_original # entry.df_original
                         \/ existing.materialization # entry.materialization
                      THEN [entries |-> es, heap |-> hp, raised |-> TRUE]
                      ELSE MergeLoop(r, es,
                               [hp EXCEPT ![existing.written_to_db] =
                                              @ \cup hp[entry.written_to_db]],
                               oes, i + 1)
             ELSE MergeLoop(r,
                      SetEntry(es, name,
                          SavepointEntry(name, CopyDf(entry.df_original),
                                         entry.materialization,
                                         NewSet(r, name))),
                      [hp EXCEPT ![NewSet(r, name)] =
                                     hp[entry.written_to_db]],
                      oes, i + 1)

merge(r, other) ==
    /\ pc = "idle"
    /\ LET out == MergeLoop(r, entries[r], heap, entries[other], 1)
       IN  /\ entries' = [entries EXCEPT ![r] = out.entries]
           /\ heap' = out.heap
           /\ Done("merge", IF out.raised THEN "ValueError" ELSE "ok")

\* ----------------------------------------------------- the combined graph
\* A node of the SqlModel graph as the registry sees it.
SqlModel(node) ==
    [node |-> node, materialization |-> "VIRTUAL",
     materialization_name |-> None]

\* _get_virtual_node: one node whose references are the given ones, in the
\* order of the dict.  A reference is [key, model]; the key 'ref_<name>' is
\* represented by <name>.
_get_virtual_node(references) ==
    [node |-> 0, materialization |-> "VIRTUAL",
     materialization_name |-> None, references |-> references]

\* graph.set_materialization_name(reference_path, materialization_name)
set_materialization_name(graph, key, mname) ==
    [graph EXCEPT !.references =
        [i \in DOMAIN @ |->
            IF @[i].key = key
            THEN [@[i] EXCEPT !.model.materialization_name = mname]
            ELSE @[i]]]

\* graph.set_materialization(reference_path, materialization)
set_materialization(graph, key, mat) ==
    [graph EXCEPT !.references =
        [i \in DOMAIN @ |->
            IF @[i].key = key
            THEN [@[i] EXCEPT !.model.materialization = mat]
            ELSE @[i]]]

\* The loop of _get_combined_graph over entries[i ..].
RECURSIVE SetMaterializations(_, _, _)
SetMaterializations(graph, es, i) ==
    IF i > Len(es)
    THEN graph
    ELSE SetMaterializations(
             set_materialization(
                 set_materialization_name(graph, es[i].name, es[i].name),
                 es[i].name, es[i].materialization),
             es, i + 1)

\* _get_combined_graph with one reference per base_node instead of one per
\* entry.
_get_combined_graph_by_node(es) ==
    LET firsts == SelectSeq([i \in 1 .. Len(es) |-> [i |-> i, e |-> es[i]]],
                      LAMBDA x : \A j \in 1 .. x.i - 1 :
                          es[j].df_original.base_node
                              # x.e.df_original.base_node)
        references ==
            [i \in 1 .. Len(firsts) |->
                [key |-> firsts[i].e.name,
                 model |-> SqlModel(firsts[i].e.df_original.base_node)]]
    IN  SetMaterializations(_get_virtual_node(references), es, 1)

_get_combined_graph(es) ==
    LET references ==
            [i \in 1 .. Len(es) |->
                [key |-> es[i].name,
                 model |-> SqlModel(es[i].df_original.base_node)]]
    IN  SetMaterializations(_get_virtual_node(references), es, 1)

\* The text of one SQL statement, reduced to what it does (verb), the name
\* of the object it makes, drops or selects (target), and the node whose
\* query it runs (0 for a drop).
Sql(verb, target, node) == [verb |-> verb, target |-> target, node |-> node]

\* to_sql_materialized_nodes(start_node, include_start_node=False): one
\* statement per named model the start node refers to, a model after every
\* model its node is built on.  Among the models that may come next, the
\* first in reference order is taken.
RECURSIVE EmitFrom(_, _)
EmitFrom(refs, done) ==
    LET named == {i \in DOMAIN refs :
                      refs[i].model.materialization_name # None}
        todo  == {i \in named : refs[i].model.materialization_name \notin done}
        ready == {i \in todo :
                    \A j \in todo :
                        refs[j].model.node \notin Ancestors(refs[i].model.node)}
    IN  IF ready = {}
        THEN <<>>
        ELSE LET i == CHOOSE k \in ready : \A j \in ready : k <= j
                 m == refs[i].model
             IN  <<[name |-> m.materialization_name,
                    sql |-> Sql(m.materialization, m.materialization_name,
                                m.node)]>>
                 \o EmitFrom(refs, done \cup {m.materialization_name})

to_sql_materialized_nodes(graph) == EmitFrom(graph.references, {})

\* Savepoints.to_sql: the dict, as the sequence of its items.
to_sql(es) == to_sql_materialized_nodes(_get_combined_graph(es))

Keys(items) == [i \in 1 .. Len(items) |-> items[i].name]

Reversed(s) == [i \in 1 .. Len(s) |-> s[Len(s) + 1 - i]]

\* The loop of get_drop_statements over names[i ..].
RECURSIVE DropLoop(_, _, _)
DropLoop(es, names, i) ==
    IF i > Len(names)
    THEN <<>>
    ELSE LET name == names[i]
             info == EntryOf(es, name)
         IN  (IF info.materialization = "TABLE"
              THEN <<[name |-> name,
                      sql |-> Sql("drop table if exists", name, 0)]>>
              ELSE IF info.materialization = "VIEW"
              THEN <<[name |-> name,
                      sql |-> Sql("drop view if exists", name, 0)]>>
              ELSE <<>>)
             \o DropLoop(es, names, i + 1)

\* get_drop_statements in the order of to_sql, not reversed.
get_drop_statements_forward(es) ==
    LET sql_statements == to_sql(es)
    IN  DropLoop(es, Keys(sql_statements), 1)

\* Savepoints.get_drop_statements
get_drop_statements(es) ==
    LET sql_statements == to_sql(es)
    IN  DropLoop(es, Reversed(Keys(sql_statements)), 1)

\* The dict comprehension of get_create_statements over items[i ..].
RECURSIVE CreateLoop(_, _, _)
CreateLoop(es, items, i) ==
    IF i > Len(items)
    THEN <<>>
    ELSE (IF EntryOf(es, items[i].name).materialization \in {"TABLE", "VIEW"}
          THEN <<items[i]>>
          ELSE <<>>)
         \o CreateLoop(es, items, i + 1)

\* Savepoints.get_create_statements
get_create_statements(es) ==
    LET sql_statements == to_sql(es)
    IN  CreateLoop(es, sql_statements, 1)

\* --------------------------------------------- Savepoints.get_materialized_df
\* get_materialized_df that accepts an entry materialized with any engine.
get_materialized_df_any(r, engine, savepoint_name) ==
    /\ pc = "idle"
    /\ UNCHANGED <<entries, heap>>
    /\ IF savepoint_name \notin NamesOf(entries[r])
       THEN Done("get_materialized_df", "KeyError")
       ELSE LET info == EntryOf(entries[r], savepoint_name)
            IN  IF heap[info.written_to_db] = {}
                THEN Done("get_materialized_df", "ValueError")
                ELSE /\ last' = [op |-> "get_materialized_df", result |-> "ok"]
                     /\ pc' = "idle"
                     /\ frame' = NoFrame
                     /\ conn' = <<>>
                     /\ before' = None
                     /\ ret' = [base_node |-> SqlModel(0), engine |-> engine]

get_materialized_df(r, engine, savepoint_name) ==
    /\ pc = "idle"
    /\ UNCHANGED <<entries, heap>>
    /\ IF savepoint_name \notin NamesOf(entries[r])
       THEN Done("get_materialized_df", "KeyError")
       ELSE LET info == EntryOf(entries[r], savepoint_name)
            IN  IF engine \notin heap[info.written_to_db]
                THEN Done("get_materialized_df", "ValueError")
                ELSE /\ last' = [op |-> "get_materialized_df", result |-> "ok"]
                     /\ pc' = "idle"
                     /\ frame' = NoFrame
                     /\ conn' = <<>>
                     /\ before' = None
                     /\ LET full_graph == _get_combined_graph(entries[r])
                            i == CHOOSE k \in DOMAIN full_graph.references :
                                     full_graph.references[k].key = info.name
                        IN  ret' = [base_node |->
                                        full_graph.references[i].model,
                                    engine |-> engine]

\* ----------------------------------------------------- Savepoints.execute_sql
\* A call on the connection: begin, execute (with the statements sent and
\* whether the engine accepted them), commit or rollback.
ConnCall(call, sql, ok) == [call |-> call, sql |-> sql, ok |-> ok]

\* execute_sql up to the first conn.execute: to_sql(), connect, begin, and
\* the choice between the drop statements and the loop.
\* ExecBegin that drops whatever the overwrite flag says.
ExecBegin_dropping(r, engine, overwrite) ==
    /\ pc = "idle"
    /\ frame' = [self |-> r, engine |-> engine, overwrite |-> overwrite,
                 sql_statements |-> to_sql(entries[r]),
                 pos |-> 0, result_created |-> <<>>, result_data |-> {}]
    /\ conn' = <<[call |-> "begin", sql |-> <<>>, ok |-> TRUE]>>
    /\ before' = heap
    /\ pc' = IF get_drop_statements(entries[r]) # <<>>
             THEN "drop" ELSE "loop"
    /\ last' = [op |-> "execute_sql", result |-> "running"]
    /\ ret' = None
    /\ UNCHANGED <<entries, heap>>

ExecBegin(r, engine, overwrite) ==
    /\ pc = "idle"
    /\ frame' = [self |-> r, engine |-> engine, overwrite |-> overwrite,
                 sql_statements |-> to_sql(entries[r]),
                 pos |-> 0, result_created |-> <<>>, result_data |-> {}]
    /\ conn' = <<ConnCall("begin", <<>>, TRUE)>>
    /\ before' = heap
    /\ pc' = IF overwrite /\ get_drop_statements(entries[r]) # <<>>
             THEN "drop" ELSE "loop"
    /\ last' = [op |-> "execute_sql", result |-> "running"]
    /\ ret' = None
    /\ UNCHANGED <<entries, heap>>

\* The exception of a failed conn.execute leaves both with-blocks: the
\* transaction is rolled back and execute_sql raises.
Raise(sql) ==
    /\ conn' = conn \o <<ConnCall("execute", sql, FALSE),
                         ConnCall("rollback", <<>>, TRUE)>>
    /\ pc' = "idle"
    /\ last' = [op |-> "execute_sql", result |-> "DBError"]
    /\ ret' = None
    /\ UNCHANGED <<entries, heap, frame, before>>

\* conn.execute(drop_sql): all drop statements joined into one.
DropOk ==
    /\ pc = "drop"
    /\ conn' = conn \o
           <<ConnCall("execute",
                      get_drop_statements(entries[frame.self]), TRUE)>>
    /\ pc' = "loop"
    /\ UNCHANGED <<entries, heap, frame, before, last, ret>>

DropFail ==
    /\ pc = "drop"
    /\ Raise(get_drop_statements(entries[frame.self]))

\* One round of the loop over sql_statements whose conn.execute succeeds.
\* StmtOk that records the engine only for the objects it has created.
StmtOk_created_only ==
    /\ pc = "loop"
    /\ frame.pos < Len(frame.sql_statements)
    /\ LET item == frame.sql_statements[frame.pos + 1]
           name == item.name
           info == EntryOf(entries[frame.self], name)
       IN  /\ conn' = conn \o <<ConnCall("execute", <<item>>, TRUE)>>
           /\ frame' = [frame EXCEPT
                  !.pos = @ + 1,
                  !.result_data =
                      IF info.materialization = "QUERY"
                      THEN @ \cup {name} ELSE @,
                  !.result_created =
                      IF info.materialization \in {"TABLE", "VIEW"}
                      THEN Append(@, [name |-> name,
                                      materialization |->
                                          info.materialization])
                      ELSE @]
           /\ heap' = [heap EXCEPT ![info.written_to_db] =
                           IF info.materialization \in {"TABLE", "VIEW"}
                           THEN @ \cup {frame.engine} ELSE @]
    /\ UNCHANGED <<entries, pc, before, last, ret>>

StmtOk ==
    /\ pc = "loop"
    /\ frame.pos < Len(frame.sql_statements)
    /\ LET item == frame.sql_statements[frame.pos + 1]
           name == item.name
           info == EntryOf(entries[frame.self], name)
       IN  /\ conn' = conn \o <<ConnCall("execute", <<item>>, TRUE)>>
           /\ frame' = [frame EXCEPT
                  !.pos = @ + 1,
                  !.result_data =
                      IF info.materialization = "QUERY"
                      THEN @ \cup {name} ELSE @,
                  !.result_created =
                      IF info.materialization \in {"TABLE", "VIEW"}
                      THEN Append(@, [name |-> name,
                                      materialization |->
                                          info.materialization])
                      ELSE @]
           /\ heap' = [heap EXCEPT ![info.written_to_db] =
                                       @ \cup {frame.engine}]
    /\ UNCHANGED <<entries, pc, before, last, ret>>

\* One round of the loop whose conn.execute is rejected by the engine.
StmtFail ==
    /\ pc = "loop"
    /\ frame.pos < Len(frame.sql_statements)
    /\ Raise(<<frame.sql_statements[frame.pos + 1]>>)

\* transaction.commit() and the return of the SqlExecutionResult.
\* Commit that does not wait for the end of the loop.
Commit_early ==
    /\ pc = "loop"
    /\ conn' = conn \o <<ConnCall("commit", <<>>, TRUE)>>
    /\ pc' = "idle"
    /\ last' = [op |-> "execute_sql", result |-> "ok"]
    /\ ret' = [created |-> frame.result_created,
               data |-> frame.result_data]
    /\ UNCHANGED <<entries, heap, frame, before>>

Commit ==
    /\ pc = "loop"
    /\ frame.pos = Len(frame.sql_statements)
    /\ conn' = conn \o <<ConnCall("commit", <<>>, TRUE)>>
    /\ pc' = "idle"
    /\ last' = [op |-> "execute_sql", result |-> "ok"]
    /\ ret' = [created |-> frame.result_created,
               data |-> frame.result_data]
    /\ UNCHANGED <<entries, heap, frame, before>>

\* ============================================================ expression.py
\* Every object is a record whose field kind is its class.  Strings are
\* sequences of characters.  A token is [kind, val]; an Expression is
\* [kind, data, name] with data the tuple _data and name the attribute that
\* only ConstValueExpression sets.  A call that raises gives the record of
\* its exception.
Raised(exception) == [kind |-> exception]
IsRaised(x) ==
    x.kind \in {"ValueError", "TypeError", "NotImplementedError",
                "AttributeError", "SyntaxError"}

\* None where an object is expected.
NoneType == [kind |-> "NoneType"]

ExpressionClasses ==
    {"Expression", "NonAtomicExpression", "IndependentSubqueryExpression",
     "SingleValueExpression", "ConstValueExpression",
     "AggregateFunctionExpression", "WindowFunctionExpression"}

\* The classes cls and those derived from it.
Subclasses(cls) ==
    CASE cls = "Expression" -> ExpressionClasses
      [] cls = "SingleValueExpression" ->
             {"SingleValueExpression", "ConstValueExpression"}
      [] cls = "GroupBy" -> {"GroupBy", "Window"}
      [] OTHER -> {cls}

isinstance(x, cls) == x.kind \in Subclasses(cls)

RawToken(raw) == [kind |-> "RawToken", val |-> raw]
ColumnReferenceToken(column_name) ==
    [kind |-> "ColumnReferenceToken", val |-> column_name]
StringValueToken(value) == [kind |-> "StringValueToken", val |-> value]

\* cls(data) with a list as data.
Expression__init__(cls, data) == [data |-> data, kind |-> cls, name |-> None]

\* ConstValueExpression(data, name)
ConstValueExpression(data, name) ==
    [data |-> data, kind |-> "ConstValueExpression", name |-> name]

\* [d for d in self._data if isinstance(d, Expression)]
ExpressionsIn(e) == SelectSeq(e.data, LAMBDA d : isinstance(d, "Expression"))

\* Expression.__eq__ and the == of the lists it compares: the classes of the
\* two Expressions and their names play no part, tokens are equal when
\* their class and fields are.
RECURSIVE Expression__eq__(_, _)
\* An __eq__ that also wants the two Expressions to be of one class.
Expression__eq__same_class(self, other) ==
    /\ self.kind = other.kind
    /\ Len(self.data) = Len(other.data)
    /\ \A i \in DOMAIN self.data :
           IF isinstance(self.data[i], "Expression")
           THEN Expression__eq__(self.data[i], other.data[i])
           ELSE /\ ~isinstance(other.data[i], "Expression")
                /\ self.data[i] = other.data[i]

Expression__eq__(self, other) ==
    /\ isinstance(other, "Expression")
    /\ Len(self.data) = Len(other.data)
    /\ \A i \in DOMAIN self.data :
           IF isinstance(self.data[i], "Expression")
           THEN Expression__eq__(self.data[i], other.data[i])
           ELSE /\ ~isinstance(other.data[i], "Expression")
                /\ self.data[i] = other.data[i]

\* hash(self) == hash(other) for two Expressions.  Expression.__hash__ is
\* hash(self._data), the hash of a tuple, which is computed from the hashes
\* of its elements in order; the hash of a token, a frozen dataclass, is the
\* hash of the tuple of its fields, its class left out.  The builtin hash is
\* taken to give different values for different tuples.
RECURSIVE Expression__hash__eq(_, _)
Expression__hash__eq(self, other) ==
    /\ Len(self.data) = Len(other.data)
    /\ \A i \in DOMAIN self.data :
           IF isinstance(self.data[i], "Expression")
           THEN /\ isinstance(other.data[i], "Expression")
                /\ Expression__hash__eq(self.data[i], other.data[i])
           ELSE /\ ~isinstance(other.data[i], "Expression")
                /\ self.data[i].val = other.data[i].val

\* ------------------------------------------------------- Expression.construct
\* fmt.split('{}'): `cur` is the piece being read, i the next character.
RECURSIVE SplitFrom(_, _, _)
SplitFrom(fmt, i, cur) ==
    IF i > Len(fmt)
    THEN <<cur>>
    ELSE IF i < Len(fmt) /\ fmt[i] = "{" /\ fmt[i + 1] = "}"
    THEN <<cur>> \o SplitFrom(fmt, i + 2, <<>>)
    ELSE SplitFrom(fmt, i + 1, Append(cur, fmt[i]))

Split(fmt) == SplitFrom(fmt, 1, <<>>)

\* The loop of construct over sub_strs[i ..]; sub_strs[1] is the piece
\* before the first '{}'.
RECURSIVE ConstructLoop(_, _, _)
ConstructLoop(sub_strs, args, i) ==
    IF i > Len(sub_strs)
    THEN <<>>
    ELSE LET arg == args[i - 1]
             arg_expr == IF ~isinstance(arg, "Expression")
                         THEN arg.expression ELSE arg
         IN  (IF i = 1
              THEN <<>>
              ELSE IF isinstance(arg_expr, "NonAtomicExpression")
              THEN <<RawToken(<<"(">>), arg_expr, RawToken(<<")">>)>>
              ELSE <<arg_expr>>)
             \o (IF sub_strs[i] # <<>>
                 THEN <<RawToken(sub_strs[i])>> ELSE <<>>)
             \o ConstructLoop(sub_strs, args, i + 1)

\* construct that puts every argument between parentheses.
construct_wrapping(cls, fmt, args) ==
    LET sub_strs == Split(fmt)
        wrapped == [i \in DOMAIN args |->
                       Expression__init__("NonAtomicExpression",
                                          <<args[i]>>)]
    IN  IF Len(args) # Len(sub_strs) - 1
        THEN Raised("ValueError")
        ELSE Expression__init__(cls, ConstructLoop(sub_strs, wrapped, 1))

\* cls.construct(fmt, *args)
construct(cls, fmt, args) ==
    LET sub_strs == Split(fmt)
    IN  IF Len(args) # Len(sub_strs) - 1
        THEN Raised("ValueError")
        ELSE Expression__init__(cls, ConstructLoop(sub_strs, args, 1))

\* ---------------------------------------------------- Expression properties
\* `len(l) and all(l)` is 0 for an empty list: what is modelled is whether
\* the value is true.
\* is_single_value that knows the class SingleValueExpression only, not the
\* classes derived from it.
is_single_value_own_class(self) == self.kind = "SingleValueExpression"

RECURSIVE is_single_value(_)
is_single_value(self) ==
    \/ isinstance(self, "SingleValueExpression")
    \/ LET all_single_value == ExpressionsIn(self)
       IN  /\ Len(all_single_value) # 0
           /\ \A i \in DOMAIN all_single_value :
                  is_single_value(all_single_value[i])

RECURSIVE is_constant(_)
\* is_constant for which an Expression without Expressions in it is
\* constant.
is_constant_vacuous(self) ==
    IF self.kind \in {"AggregateFunctionExpression",
                      "WindowFunctionExpression"}
    THEN FALSE
    ELSE \/ isinstance(self, "ConstValueExpression")
         \/ LET all_constant == ExpressionsIn(self)
            IN  \A i \in DOMAIN all_constant : is_constant(all_constant[i])

is_constant(self) ==
    IF self.kind \in {"AggregateFunctionExpression",
                      "WindowFunctionExpression"}
    THEN FALSE
    ELSE \/ isinstance(self, "ConstValueExpression")
         \/ LET all_constant == ExpressionsIn(self)
            IN  /\ Len(all_constant) # 0
                /\ \A i \in DOMAIN all_constant :
                       is_constant(all_constant[i])

RECURSIVE is_independent_subquery(_)
\* is_independent_subquery as every class but IndependentSubqueryExpression
\* would compute it if all of them looked at their Expressions.
is_independent_subquery_all_classes(self) ==
    \/ isinstance(self, "IndependentSubqueryExpression")
    \/ LET all_isq == ExpressionsIn(self)
       IN  /\ Len(all_isq) > 0
           /\ \A i \in DOMAIN all_isq : is_independent_subquery(all_isq[i])

is_independent_subquery(self) ==
    IF isinstance(self, "SingleValueExpression")
    THEN LET all_isq == ExpressionsIn(self)
         IN  /\ Len(all_isq) > 0
             /\ \A i \in DOMAIN all_isq : is_independent_subquery(all_isq[i])
    ELSE isinstance(self, "IndependentSubqueryExpression")

RECURSIVE has_aggregate_function(_)
\* has_aggregate_function that does not look into the Expression.
has_aggregate_function_shallow(self) ==
    IF self.kind = "WindowFunctionExpression"
    THEN FALSE
    ELSE isinstance(self, "AggregateFunctionExpression")

\* has_aggregate_function without the override of WindowFunctionExpression.
has_aggregate_function_through_window(self) ==
    \/ isinstance(self, "AggregateFunctionExpression")
    \/ \E i \in DOMAIN ExpressionsIn(self) :
           has_aggregate_function(ExpressionsIn(self)[i])

has_aggregate_function(self) ==
    IF self.kind = "WindowFunctionExpression"
    THEN FALSE
    ELSE \/ isinstance(self, "AggregateFunctionExpression")
         \/ \E i \in DOMAIN ExpressionsIn(self) :
                has_aggregate_function(ExpressionsIn(self)[i])

RECURSIVE has_windowed_aggregate_function(_)
has_windowed_aggregate_function(self) ==
    \/ isinstance(self, "WindowFunctionExpression")
    \/ \E i \in DOMAIN ExpressionsIn(self) :
           has_windowed_aggregate_function(ExpressionsIn(self)[i])

\* ------------------------------------- Expression.resolve_column_references
\* name.replace(c, c + c)
RECURSIVE Doubled(_, _)
Doubled(str, c) ==
    IF str = <<>>
    THEN <<>>
    ELSE (IF Head(str) = c THEN <<c, c>> ELSE <<Head(str)>>)
         \o Doubled(Tail(str), c)

\* sql_models.util.quote_identifier: the name between double quotes, the
\* double quotes in it doubled.
quote_identifier(name) == <<"\"">> \o Doubled(name, "\"") \o <<"\"">>

\* sql_models.util.quote_string: the value between single quotes, the single
\* quotes in it doubled.
quote_string(value) == <<"'">> \o Doubled(value, "'") \o <<"'">>

\* SqlModelSpec.escape_format_string: every brace doubled.
escape_format_string(value) == Doubled(Doubled(value, "{"), "}")

\* ColumnReferenceToken.resolve; table_name is None or a str,
\* [kind |-> "str", val], and `if table_name` is false for None and ''.
ColumnReferenceToken_resolve(self, table_name) ==
    LET t == IF table_name.kind # "NoneType" /\ table_name.val # <<>>
             THEN quote_identifier(table_name.val) \o <<".">>
             ELSE <<>>
    IN  RawToken(t \o quote_identifier(self.val))

RECURSIVE resolve_column_references(_, _)
\* resolve_column_references that leaves the Expressions in data as they are.
resolve_column_references_shallow(self, table_name) ==
    Expression__init__(self.kind,
        [i \in DOMAIN self.data |->
            IF isinstance(self.data[i], "ColumnReferenceToken")
            THEN ColumnReferenceToken_resolve(self.data[i], table_name)
            ELSE self.data[i]])

resolve_column_references(self, table_name) ==
    Expression__init__(self.kind,
        [i \in DOMAIN self.data |->
            IF isinstance(self.data[i], "Expression")
            THEN resolve_column_references(self.data[i], table_name)
            ELSE IF isinstance(self.data[i], "ColumnReferenceToken")
            THEN ColumnReferenceToken_resolve(self.data[i], table_name)
            ELSE self.data[i]])

\* ''.join(d.to_sql() for d in data[i ..]), or the ValueError of a
\* ColumnReferenceToken that is asked for its text.
RECURSIVE JoinSql(_, _)
\* Expression.to_sql
Expression_to_sql(self, table_name) ==
    JoinSql(resolve_column_references(self, table_name).data, 1)

JoinSql(data, i) ==
    IF i > Len(data)
    THEN [kind |-> "str", val |-> <<>>]
    ELSE LET d == data[i]
             text == IF isinstance(d, "Expression")
                     THEN Expression_to_sql(d, NoneType)
                     ELSE IF d.kind = "RawToken"
                     THEN [kind |-> "str",
                           val |-> escape_format_string(d.val)]
                     ELSE IF d.kind = "StringValueToken"
                     THEN [kind |-> "str",
                           val |-> escape_format_string(quote_string(d.val))]
                     ELSE Raised("ValueError")
             rest == JoinSql(data, i + 1)
         IN  IF IsRaised(text)
             THEN text
             ELSE IF IsRaised(rest)
             THEN rest
             ELSE [kind |-> "str", val |-> text.val \o rest.val]

\* ============================================================ series/series.py
\* A keyword argument that is None or left out is <<>>, one that is given
\* the value v is <<v>>; so are the Optional[int] and Optional[bool] values.
\* A Series is the record of its attributes and of the dtype of its class.
Series(dtype, engine, base_node, index, name, expression, group_by, sorted_ascending) ==
    [base_node |-> base_node, dtype |-> dtype, engine |-> engine,
     expression |-> expression, group_by |-> group_by, index |-> index,
     kind |-> "Series", name |-> name,
     sorted_ascending |-> sorted_ascending]

\* copy_override that tests its arguments for being true, not for being
\* None: False, an empty index and [None] count as left out.
copy_override_falsy(self, dtype, engine, base_node, index, name, expression, group_by, sorted_ascending) ==
    Series(IF dtype = <<>> THEN self.dtype ELSE dtype[1],
           IF engine = <<>> THEN self.engine ELSE engine[1],
           IF base_node = <<>> THEN self.base_node ELSE base_node[1],
           IF index = <<>> \/ index = <<<<>>>> THEN self.index ELSE index[1],
           IF name = <<>> THEN self.name ELSE name[1],
           IF expression = <<>> THEN self.expression ELSE expression[1],
           IF group_by = <<>> \/ group_by = <<NoneType>>
           THEN self.group_by ELSE group_by[1],
           IF sorted_ascending = <<>> \/ sorted_ascending = <<FALSE>>
           THEN self.sorted_ascending ELSE sorted_ascending)

\* Series.copy_override; group_by is the list of the code, [None] included.
copy_override(self, dtype, engine, base_node, index, name, expression, group_by, sorted_ascending) ==
    Series(IF dtype = <<>> THEN self.dtype ELSE dtype[1],
           IF engine = <<>> THEN self.engine ELSE engine[1],
           IF base_node = <<>> THEN self.base_node ELSE base_node[1],
           IF index = <<>> THEN self.index ELSE index[1],
           IF name = <<>> THEN self.name ELSE name[1],
           IF expression = <<>> THEN self.expression ELSE expression[1],
           IF group_by = <<>> THEN self.group_by ELSE group_by[1],
           IF sorted_ascending = <<>>
           THEN self.sorted_ascending ELSE sorted_ascending)

\* self.copy_override(dtype=dtype, expression=expression)
CopyWith(self, dtype, expression) ==
    copy_override(self, dtype, <<>>, <<>>, <<>>, <<>>, <<expression>>,
                  <<>>, <<>>)

\* A value of a Python type, not a Series: [kind, val] with kind the dtype
\* bach.types.value_to_dtype gives it and val its text.
\* Series.value_to_expression for the bool values, the one literal type
\* whose class is in series_boolean.py.
value_to_expression(value) ==
    Expression__init__("Expression", <<RawToken(value.val)>>)

\* const_to_series
const_to_series(base, value) ==
    IF value.kind = "Series"
    THEN value
    ELSE Series(value.kind, base.engine, base.base_node, base.index,
                <<"_", "_", "t", "m", "p">>, value_to_expression(value),
                NoneType, <<>>)

\* Series._get_supported that checks the dtype before the base_node.
_get_supported_dtype_first(self, operation_name, supported_dtypes, other) ==
    IF other.dtype \notin SeqToSet(supported_dtypes)
    THEN Raised("TypeError")
    ELSE IF self.base_node # other.base_node
    THEN Raised("ValueError")
    ELSE other

\* Series._get_supported; the dtypes of the model are in lower case.
_get_supported(self, operation_name, supported_dtypes, other) ==
    IF self.base_node # other.base_node
    THEN Raised("ValueError")
    ELSE IF other.dtype \notin SeqToSet(supported_dtypes)
    THEN Raised("TypeError")
    ELSE other

\* Series._binary_operation; dtype is None, a str or a dict from the dtype
\* of the right hand side to the dtype of the result.
_binary_operation(self, other, operation, fmt_str, other_dtypes, dtype) ==
    IF Len(other_dtypes) = 0
    THEN Raised("NotImplementedError")
    ELSE LET other_series == const_to_series(self, other)
             supported == _get_supported(self, operation, other_dtypes,
                                         other_series)
             expression == construct("Expression", fmt_str,
                                     <<self, supported>>)
             new_dtype ==
                 IF dtype.kind = "dict"
                 THEN IF supported.dtype \notin DOMAIN dtype.val
                      THEN <<>> ELSE <<dtype.val[supported.dtype]>>
                 ELSE IF dtype.kind = "NoneType"
                 THEN <<>> ELSE <<dtype.val>>
         IN  IF IsRaised(supported)
             THEN supported
             ELSE IF IsRaised(expression)
             THEN expression
             ELSE CopyWith(self, new_dtype, expression)

\* '({}) <operator> ({})' and the like, with the text of the operator.
Fmt(before_lhs, operator, before_rhs, after_rhs) ==
    before_lhs \o <<"{", "}", ")", " ">> \o operator \o <<" ">>
        \o before_rhs \o <<"{", "}">> \o after_rhs

\* Series._arithmetic_operation
_arithmetic_operation(self, other, operation, fmt_str, other_dtypes, dtype) ==
    IF Len(other_dtypes) = 0
    THEN Raised("NotImplementedError")
    ELSE _binary_operation(self, other, operation, fmt_str, other_dtypes,
                           dtype)

\* Series._comparator_operation
_comparator_operation(self, other, comparator, other_dtypes) ==
    IF Len(other_dtypes) = 0
    THEN Raised("NotImplementedError")
    ELSE _binary_operation(self, other, comparator,
                           Fmt(<<"(">>, comparator, <<"(">>, <<")">>),
                           other_dtypes, [kind |-> "str", val |-> "bool"])

\* SeriesBoolean._boolean_operator; other.dtype is read before other is
\* made a Series, and a value that is not a Series has no dtype.
_boolean_operator(self, other, operator, other_dtypes) ==
    LET fmt_str == IF other.dtype # "bool"
                   THEN Fmt(<<"(">>, operator, <<"c", "a", "s", "t", "(">>,
                            <<" ", "a", "s", " ", "b", "o", "o", "l", ")">>)
                   ELSE Fmt(<<"(">>, operator, <<"(">>, <<")">>)
    IN  IF other.kind # "Series"
        THEN Raised("AttributeError")
        ELSE _binary_operation(self, other, operator, fmt_str, other_dtypes,
                               [kind |-> "str", val |-> "bool"])

\* SeriesUuid._comparator_operation
SeriesUuid_comparator_operation(self, other, comparator, other_dtypes) ==
    LET other_series == const_to_series(self, other)
        supported == _get_supported(self, comparator, other_dtypes,
                                    other_series)
        fmt_str == IF supported.dtype = "uuid"
                   THEN Fmt(<<"(">>, comparator, <<"(">>, <<")">>)
                   ELSE Fmt(<<"(">>, comparator,
                            <<"(", "c", "a", "s", "t", "(">>,
                            <<" ", "a", "s", " ", "u", "u", "i", "d", ")",
                              ")">>)
    IN  IF IsRaised(supported)
        THEN supported
        ELSE CopyWith(self, <<"bool">>,
                      construct("Expression", fmt_str, <<self, supported>>))

\* --------------------------------------------------- Series._derived_agg_func
\* bach.partitioning: a GroupBy is known by its index, a Window is a GroupBy
\* with a minimum number of values; two of them are equal when they are the
\* same record.
GroupBy(index) == [index |-> index, kind |-> "GroupBy"]
Window(index, min_values) ==
    [index |-> index, kind |-> "Window", min_values |-> min_values]

\* GroupBy([GroupBy.get_dummy_index_series(engine, base_node)])
DummyGroupBy == GroupBy(<<"index">>)

\* Window.get_window_expression
get_window_expression(window, expression) ==
    Expression__init__("WindowFunctionExpression",
        <<expression,
          RawToken(<<" ", "o", "v", "e", "r", " ", "(", ")">>)>>)

\* A DataFrame that is passed as the partition.
WrappedDataFrame(base_node, group_by) ==
    [base_node |-> base_node, group_by |-> group_by, kind |-> "DataFrame"]

\* Series._check_unwrap_groupby; isin is a class, notin a set of classes.
_check_unwrap_groupby(wrapped, isin, notin) ==
    LET group_by == IF wrapped.kind = "DataFrame"
                    THEN wrapped.group_by ELSE wrapped
    IN  IF ~isinstance(group_by, isin)
        THEN Raised("ValueError")
        ELSE IF \E cls \in notin : isinstance(group_by, cls)
        THEN Raised("ValueError")
        ELSE group_by

\* str(n) for n >= 0
RECURSIVE IntToStr(_)
IntToStr(n) ==
    LET digit(d) == <<"0", "1", "2", "3", "4", "5", "6", "7", "8", "9">>[d + 1]
    IN  IF n < 10
        THEN <<digit(n)>>
        ELSE IntToStr(n \div 10) \o <<digit(n % 10)>>

\* f'CASE WHEN {{}} >= {min_count} THEN {{}} ELSE NULL END'
CaseFmt(min_count) ==
    <<"C", "A", "S", "E", " ", "W", "H", "E", "N", " ", "{", "}", " ", ">",
      "=", " ">> \o IntToStr(min_count)
    \o <<" ", "T", "H", "E", "N", " ", "{", "}", " ", "E", "L", "S", "E", " ",
         "N", "U", "L", "L", " ", "E", "N", "D">>

\* The partition _derived_agg_func goes on with: the one passed, unwrapped,
\* or else the group_by of the Series, or else one over the whole input.
AggPartition(self, partition) ==
    IF partition.kind = "NoneType"
    THEN IF self.group_by.kind # "NoneType"
         THEN self.group_by
         ELSE DummyGroupBy
    ELSE _check_unwrap_groupby(partition, "GroupBy", {})

\* The min_count part of _derived_agg_func that compares with a Window
\* whatever the sign of min_count.
AggMinCount_any_sign(self, partition, expression, min_count, counted) ==
    IF min_count # <<>>
    THEN IF isinstance(partition, "Window")
         THEN IF partition.min_values # min_count[1]
              THEN Raised("NotImplementedError")
              ELSE expression
         ELSE IF min_count[1] <= 0
         THEN expression
         ELSE IF IsRaised(counted)
         THEN counted
         ELSE construct("Expression", CaseFmt(min_count[1]),
                        <<counted, expression>>)
    ELSE expression

\* The min_count part of _derived_agg_func with the two arguments of the
\* CASE WHEN in the other order.
AggMinCount_swapped(self, partition, expression, min_count, counted) ==
    IF min_count # <<>> /\ min_count[1] > 0
    THEN IF isinstance(partition, "Window")
         THEN IF partition.min_values # min_count[1]
              THEN Raised("NotImplementedError")
              ELSE expression
         ELSE IF IsRaised(counted)
         THEN counted
         ELSE construct("Expression", CaseFmt(min_count[1]),
                        <<expression, counted>>)
    ELSE expression

\* The min_count part of _derived_agg_func: the expression it goes on with;
\* counted is self.count(partition, skipna=skipna).
AggMinCount(self, partition, expression, min_count, counted) ==
    IF min_count # <<>> /\ min_count[1] > 0
    THEN IF isinstance(partition, "Window")
         THEN IF partition.min_values # min_count[1]
              THEN Raised("NotImplementedError")
              ELSE expression
         ELSE IF IsRaised(counted)
         THEN counted
         ELSE construct("Expression", CaseFmt(min_count[1]),
                        <<counted, expression>>)
    ELSE expression

\* The end of _derived_agg_func that compares the group_by of the Series
\* with a Window too.
AggResult_window_checked(self, partition, expression, derived_dtype) ==
    IF self.group_by.kind # "NoneType" /\ self.group_by # partition
    THEN Raised("ValueError")
    ELSE IF ~isinstance(partition, "Window")
    THEN copy_override(self, <<derived_dtype>>, <<>>, <<>>,
                       <<partition.index>>, <<>>, <<expression>>,
                       <<partition>>, <<>>)
    ELSE CopyWith(self, <<derived_dtype>>,
                  get_window_expression(partition, expression))

\* The end of _derived_agg_func that treats a Window as any GroupBy.
AggResult_collapsing(self, partition, expression, derived_dtype) ==
    IF self.group_by.kind # "NoneType" /\ self.group_by # partition
    THEN Raised("ValueError")
    ELSE copy_override(self, <<derived_dtype>>, <<>>, <<>>,
                       <<partition.index>>, <<>>, <<expression>>,
                       <<partition>>, <<>>)

\* The end of _derived_agg_func: the Series it returns.
AggResult(self, partition, expression, derived_dtype) ==
    IF ~isinstance(partition, "Window")
    THEN IF self.group_by.kind # "NoneType" /\ self.group_by # partition
         THEN Raised("ValueError")
         ELSE copy_override(self, <<derived_dtype>>, <<>>, <<>>,
                            <<partition.index>>, <<>>, <<expression>>,
                            <<partition>>, <<>>)
    ELSE CopyWith(self, <<derived_dtype>>,
                  get_window_expression(partition, expression))

\* Series._derived_agg_func; expression is a str, [kind |-> "str", val], or
\* an Expression.
RECURSIVE _derived_agg_func(_, _, _, _, _, _)
_derived_agg_func(self, partition, expression, dtype, skipna, min_count) ==
    IF ~skipna
    THEN Raised("NotImplementedError")
    ELSE LET built == IF expression.kind = "str"
                      THEN construct("Expression",
                                     expression.val \o <<"(", "{", "}", ")">>,
                                     <<self>>)
                      ELSE expression
             unwrapped == AggPartition(self, partition)
             \* Series.count
             counted == _derived_agg_func(self, unwrapped,
                            [kind |-> "str", val |-> <<"c", "o", "u", "n", "t">>],
                            <<"int64">>, skipna, <<>>)
             checked == AggMinCount(self, unwrapped, built, min_count,
                                    counted)
             derived_dtype == IF dtype = <<>> THEN self.dtype ELSE dtype[1]
         IN  IF IsRaised(built)
             THEN built
             ELSE IF IsRaised(unwrapped)
             THEN unwrapped
             ELSE IF IsRaised(checked)
             THEN checked
             ELSE AggResult(self, unwrapped, checked, derived_dtype)

\* --------------------------------- the aggregate expression in the database
\* What the database makes of the expression of an aggregated Series for the
\* rows of one group.  A value is NULL or an integer; rows holds the values
\* of the column of the Series in the rows of the group.
SqlNull == [kind |-> "NULL"]
SqlInt(v) == [kind |-> "integer", val |-> v]

\* int(text) for a text of digits
RECURSIVE StrToInt(_)
StrToInt(str) ==
    LET value(c) == CHOOSE d \in 0 .. 9 : IntToStr(d) = <<c>>
    IN  IF str = <<>>
        THEN 0
        ELSE StrToInt(SubSeq(str, 1, Len(str) - 1)) * 10
                 + value(str[Len(str)])

NonNull(rows) == SelectSeq(rows, LAMBDA v : v # SqlNull)

RECURSIVE SumOf(_)
SumOf(rows) == IF rows = <<>> THEN 0 ELSE Head(rows).val + SumOf(Tail(rows))

\* count(x) and sum(x) over the rows of a group.
AggregateValue(func, rows) ==
    IF func = <<"c", "o", "u", "n", "t", "(">>
    THEN SqlInt(Len(NonNull(rows)))
    ELSE IF func = <<"s", "u", "m", "(">> /\ NonNull(rows) # <<>>
    THEN SqlInt(SumOf(NonNull(rows)))
    ELSE SqlNull

\* The text is ' >= <digits> THEN '.
IsThreshold(text) ==
    /\ Len(text) > 10
    /\ SubSeq(text, 1, 4) = <<" ", ">", "=", " ">>
    /\ SubSeq(text, Len(text) - 5, Len(text)) = <<" ", "T", "H", "E", "N", " ">>

\* func(column) and CASE WHEN a >= n THEN b ELSE NULL END, the two forms
\* _derived_agg_func builds for a GroupBy.
RECURSIVE SqlValue(_, _)
SqlValue(e, rows) ==
    LET d == e.data
    IN  IF /\ Len(d) = 3
           /\ d[1].kind = "RawToken"
           /\ isinstance(d[2], "Expression")
           /\ d[3] = RawToken(<<")">>)
        THEN AggregateValue(d[1].val, rows)
        ELSE IF /\ Len(d) = 5
                /\ d[1] = RawToken(<<"C", "A", "S", "E", " ", "W", "H", "E",
                                     "N", " ">>)
                /\ isinstance(d[2], "Expression")
                /\ d[3].kind = "RawToken"
                /\ IsThreshold(d[3].val)
                /\ isinstance(d[4], "Expression")
                /\ d[5] = RawToken(<<" ", "E", "L", "S", "E", " ", "N", "U",
                                     "L", "L", " ", "E", "N", "D">>)
        THEN LET when == SqlValue(d[2], rows)
                 n == StrToInt(SubSeq(d[3].val, 5, Len(d[3].val) - 6))
             IN  IF when.kind = "integer" /\ when.val >= n
                 THEN SqlValue(d[4], rows)
                 ELSE SqlNull
        ELSE Raised("SyntaxError")

\* ------------------------------------------------------------ specifications
\* The inputs the smaller specifications draw from.
FewNames == {"a", "b"}
FewFrames == {df \in DataFrame : df.base_node <= 2}
FewKinds == {"QUERY", "TABLE"}

\* Spec: one registry with two names, every operation, the engine free to
\* reject any statement.
Next ==
    \/ \E name \in FewNames, df \in FewFrames, m \in Materialization :
           add_savepoint(1, name, df, m) /\ UNCHANGED applied
    \/ \E name \in FewNames, m \in Materialization :
           update_savepoint(1, name, m) /\ UNCHANGED applied
    \/ \E name \in FewNames : remove_savepoint(1, name) /\ UNCHANGED applied
    \/ \E name \in FewNames, e \in Urls : get_materialized_df(1, e, name) /\ UNCHANGED applied
    \/ \E e \in Urls, o \in BOOLEAN : ExecBegin(1, e, o) /\ UNCHANGED applied
    \/ DropOk /\ UNCHANGED applied
    \/ DropFail /\ UNCHANGED applied
    \/ StmtOk /\ UNCHANGED applied
    \/ StmtFail /\ UNCHANGED applied
    \/ Commit /\ UNCHANGED applied

Spec == Init /\ [][Next]_vars

\* SpecSql: one registry with three names over the whole graph, built and
\* changed but not executed: the registries to_sql is asked about.
NextSql ==
    \/ \E name \in Names, df \in DataFrame, m \in Materialization :
           add_savepoint(1, name, df, m) /\ UNCHANGED applied
    \/ \E name \in Names, m \in Materialization :
           update_savepoint(1, name, m) /\ UNCHANGED applied
    \/ \E name \in Names : remove_savepoint(1, name) /\ UNCHANGED applied

SpecSql == Init /\ [][NextSql]_vars

\* SpecExec: one registry with three names, filled and executed against one
\* engine that is free to reject any statement.
NextExec ==
    \/ \E name \in Names, df \in FewFrames, m \in Materialization :
           add_savepoint(1, name, df, m) /\ UNCHANGED applied
    \/ \E o \in BOOLEAN : ExecBegin(1, "db1", o) /\ UNCHANGED applied
    \/ DropOk /\ UNCHANGED applied
    \/ DropFail /\ UNCHANGED applied
    \/ StmtOk /\ UNCHANGED applied
    \/ StmtFail /\ UNCHANGED applied
    \/ Commit /\ UNCHANGED applied

SpecExec == Init /\ [][NextExec]_vars

\* SpecMerge: two registries, filled, executed and merged, into each other
\* and into themselves.
NextMerge ==
    \/ \E r \in Regs, name \in FewNames, df \in FewFrames, m \in FewKinds :
           add_savepoint(r, name, df, m) /\ UNCHANGED applied
    \/ \E r \in Regs : ExecBegin(r, "db1", FALSE) /\ UNCHANGED applied
    \/ StmtOk /\ UNCHANGED applied
    \/ Commit /\ UNCHANGED applied
    \/ \E r \in Regs, other \in Regs : merge(r, other) /\ UNCHANGED applied

SpecMerge == Init /\ [][NextMerge]_vars

\* SpecNames: two registries whose callers pass any string, or None, as a
\* name; entries are added, updated, removed, merged and executed, with
\* calls that fail.
NameInputs == {"a", "a-b", "a\n", "", None}
OneFrame == {df \in DataFrame : df.base_node = 1}

NextNames ==
    \/ \E r \in Regs, name \in NameInputs, df \in OneFrame, m \in FewKinds :
           add_savepoint(r, name, df, m) /\ UNCHANGED applied
    \/ \E r \in Regs, name \in NameInputs \ {None}, m \in FewKinds :
           update_savepoint(r, name, m) /\ UNCHANGED applied
    \/ \E r \in Regs, name \in NameInputs \ {None} : remove_savepoint(r, name) /\ UNCHANGED applied
    \/ \E r \in Regs, other \in Regs : merge(r, other) /\ UNCHANGED applied
    \/ \E r \in Regs : ExecBegin(r, "db1", FALSE) /\ UNCHANGED applied
    \/ StmtOk /\ UNCHANGED applied
    \/ StmtFail /\ UNCHANGED applied
    \/ Commit /\ UNCHANGED applied

SpecNames == Init /\ [][NextNames]_vars

\* SpecExpr: Expressions are constructed from format strings, asked for
\* their properties and resolved.  A call has no effect on what another
\* call returns: a behaviour is one call, with arguments Init draws.
Str(val) == [kind |-> "str", val |-> val]

\* The state before the call `args` is made.
Called(args) ==
    /\ NoSavepoints
    /\ last = [op |-> "init", result |-> "ok"]
    /\ ret = None
    /\ applied = args

\* What the call leaves behind.
Applied(value) ==
    /\ ret' = value
    /\ last' = [op |-> applied.fn,
                result |-> IF IsRaised(value) THEN value.kind ELSE "ok"]
    /\ UNCHANGED <<entries, heap, pc, frame, conn, before, applied>>

\* The format strings: up to MaxFmtLen characters, braces among them.
MaxFmtLen == 5
FmtChars == {"{", "}", "a"}
Fmts == UNION {[1 .. n -> FmtChars] : n \in 0 .. MaxFmtLen}

\* The arguments: Expressions that are NonAtomic or not, and Series of both.
Atom == Expression__init__("Expression", <<ColumnReferenceToken(<<"x">>)>>)
NonAtom ==
    Expression__init__("NonAtomicExpression", <<RawToken(<<"1", "+", "2">>)>>)
ASeries(expression) ==
    Series("int64", "db1", 1, <<"i">>, <<"x">>, expression, NoneType, <<>>)
ArgPool ==
    {Atom, NonAtom, ConstValueExpression(<<RawToken(<<"1">>)>>, "n"),
     ASeries(Atom), ASeries(NonAtom)}
ArgLists ==
    {<<>>} \cup {<<a>> : a \in ArgPool} \cup {<<a, b>> : a, b \in ArgPool}

ConstructCalls ==
    {[args |-> args, cls |-> cls, fmt |-> fmt, fn |-> "construct"] :
        cls \in {"Expression", "AggregateFunctionExpression"},
        fmt \in Fmts, args \in ArgLists}

CallConstruct ==
    /\ last.op = "init"
    /\ applied.fn = "construct"
    /\ Applied(construct(applied.cls, applied.fmt, applied.args))

\* The Expressions asked for their properties: of every class, around up to
\* two tokens or Expressions of every class, themselves around a token or an
\* Expression of every class.
Leaves ==
    {Expression__init__(cls, <<RawToken(<<"x">>)>>) : cls \in ExpressionClasses}
Mids ==
    {Expression__init__(cls, <<d>>) : cls \in ExpressionClasses, d \in Leaves}
Children == {RawToken(<<"x">>)} \cup Leaves \cup Mids
Wraps ==
    {Expression__init__(cls, data) :
        cls \in ExpressionClasses,
        data \in {<<>>} \cup {<<a>> : a \in Children}
                  \cup {<<a, b>> : a, b \in Children}}

PropertyCalls == {[fn |-> "properties", self |-> self] : self \in Wraps}

CallProperties ==
    /\ last.op = "init"
    /\ applied.fn = "properties"
    /\ Applied([has_aggregate_function |->
                    has_aggregate_function(applied.self),
                has_windowed_aggregate_function |->
                    has_windowed_aggregate_function(applied.self),
                is_constant |-> is_constant(applied.self),
                is_independent_subquery |->
                    is_independent_subquery(applied.self),
                is_single_value |-> is_single_value(applied.self),
                kind |-> "properties"])

\* The Expressions that are resolved: with column references, one of them
\* with a quote in its name, at up to three levels.
RTokens ==
    {RawToken(<<"x">>), ColumnReferenceToken(<<"c">>),
     ColumnReferenceToken(<<"c", "\"">>), StringValueToken(<<"s", "'", "{">>)}
RLeaves ==
    {Expression__init__(cls, <<t>>) :
        cls \in {"Expression", "NonAtomicExpression"},
        t \in {RawToken(<<"x">>), ColumnReferenceToken(<<"c">>)}}
    \cup {ConstValueExpression(<<ColumnReferenceToken(<<"c">>)>>, "n")}
RMids == {Expression__init__("SingleValueExpression", <<d>>) : d \in RLeaves}
RChildren == RTokens \cup RLeaves \cup RMids
RDatas ==
    {<<>>} \cup {<<a>> : a \in RChildren} \cup {<<a, b>> : a, b \in RChildren}
RTrees ==
    {Expression__init__("Expression", data) : data \in RDatas}
    \cup {ConstValueExpression(data, "n") : data \in RDatas}
TableNames == {NoneType, Str(<<>>), Str(<<"t">>)}

ResolveCalls ==
    {[fn |-> "resolve_column_references", self |-> self,
      table_name |-> table_name] :
        self \in RTrees, table_name \in TableNames}

CallResolve ==
    /\ last.op = "init"
    /\ applied.fn = "resolve_column_references"
    /\ Applied(resolve_column_references(applied.self, applied.table_name))

\* The pairs of Expressions that are compared: of several classes and
\* names, around tokens of two classes with the same text and Expressions
\* that differ in class only.
ETokens ==
    {RawToken(<<"x">>), ColumnReferenceToken(<<"x">>),
     ColumnReferenceToken(<<"c">>)}
ELeaves ==
    {Expression__init__(cls, <<t>>) :
        cls \in {"Expression", "NonAtomicExpression"}, t \in ETokens}
    \cup {ConstValueExpression(<<RawToken(<<"x">>)>>, "n")}
EPairs ==
    {RawToken(<<"x">>), ColumnReferenceToken(<<"x">>),
     Expression__init__("Expression", <<RawToken(<<"x">>)>>),
     Expression__init__("NonAtomicExpression", <<RawToken(<<"x">>)>>)}
EDatas ==
    {<<>>} \cup {<<a>> : a \in ETokens \cup ELeaves}
    \cup {<<a, b>> : a, b \in EPairs}
ETrees ==
    {Expression__init__(cls, data) :
        cls \in {"Expression", "SingleValueExpression"}, data \in EDatas}
    \cup {ConstValueExpression(data, name) :
              data \in EDatas, name \in {"n", "m"}}

EqCalls ==
    {[fn |-> "__eq__", other |-> other, self |-> self,
      table_name |-> table_name] :
        self \in ETrees, other \in ETrees, table_name \in TableNames}

\* self == other, hash(self) == hash(other) and the SQL of the two.
CallEq ==
    /\ last.op = "init"
    /\ applied.fn = "__eq__"
    /\ Applied([eq |-> Expression__eq__(applied.self, applied.other),
                hash_eq |-> Expression__hash__eq(applied.self, applied.other),
                kind |-> "compared",
                sql_other |-> Expression_to_sql(applied.other,
                                                applied.table_name),
                sql_self |-> Expression_to_sql(applied.self,
                                               applied.table_name)])

InitExpr ==
    \E args \in ConstructCalls \cup PropertyCalls \cup ResolveCalls
                 \cup EqCalls :
        Called(args)

NextExpr ==
    \/ CallConstruct
    \/ CallProperties
    \/ CallResolve
    \/ CallEq

SpecExpr == InitExpr /\ [][NextExpr]_vars

\* SpecSeries: the binary operators of a Series and _derived_agg_func are
\* called; as in SpecExpr a behaviour is one call, with arguments Init draws.
Dtypes == {"bool", "int64", "uuid"}
BaseNodes == {1, 2}

\* The Series of every dtype on every base node, with a pending group_by or
\* without one.
SeriesOf(dtype, base_node, group_by) ==
    Series(dtype, "db1", base_node, <<"i">>, <<"x">>, Atom, group_by, <<>>)

\* Values that are not a Series.
Literals == {[kind |-> "bool", val |-> <<"T", "r", "u", "e">>]}

\* The lists of supported dtypes, the empty one among them.
OtherDtypes ==
    {<<>>, <<"bool">>, <<"int64">>, <<"uuid">>, <<"bool", "int64">>,
     <<"bool", "uuid">>, <<"int64", "uuid">>, <<"bool", "int64", "uuid">>}

\* dtype of _arithmetic_operation: None or a dict.
ResultDtypes ==
    {NoneType, [kind |-> "dict", val |-> [d \in {"int64"} |-> "float64"]]}

\* The dtypes of the classes that have the method.
SelfDtypes(fn) ==
    CASE fn = "_boolean_operator" -> {"bool"}
      [] fn = "SeriesUuid._comparator_operation" -> {"uuid"}
      [] OTHER -> Dtypes

BinaryCalls ==
    {[dtype |-> dtype, fn |-> fn, other |-> other,
      other_dtypes |-> other_dtypes, self |-> SeriesOf(d, 1, NoneType)] :
        fn \in {"_arithmetic_operation", "_comparator_operation",
                "_boolean_operator", "SeriesUuid._comparator_operation"},
        d \in Dtypes,
        other \in {SeriesOf(od, b, NoneType) : od \in Dtypes, b \in BaseNodes}
                  \cup Literals,
        other_dtypes \in OtherDtypes, dtype \in ResultDtypes}

CallArithmetic ==
    /\ last.op = "init"
    /\ applied.fn = "_arithmetic_operation"
    /\ Applied(_arithmetic_operation(applied.self, applied.other, <<"+">>,
                                     Fmt(<<"(">>, <<"+">>, <<"(">>, <<")">>),
                                     applied.other_dtypes, applied.dtype))

CallComparator ==
    /\ last.op = "init"
    /\ applied.fn = "_comparator_operation"
    /\ Applied(_comparator_operation(applied.self, applied.other, <<"=">>,
                                     applied.other_dtypes))

CallBoolean ==
    /\ last.op = "init"
    /\ applied.fn = "_boolean_operator"
    /\ Applied(_boolean_operator(applied.self, applied.other,
                                 <<"A", "N", "D">>, applied.other_dtypes))

CallUuidComparator ==
    /\ last.op = "init"
    /\ applied.fn = "SeriesUuid._comparator_operation"
    /\ Applied(SeriesUuid_comparator_operation(applied.self, applied.other,
                                               <<"=">>, applied.other_dtypes))

\* The partitions: groupings, windows with a minimum number of values, and
\* DataFrames around them; min_count goes from -1 to MaxMinCount.
MaxMinCount == 5
Groupings == {GroupBy(<<"a">>), GroupBy(<<"b">>)}
Windows == {Window(<<"a">>, min_values) : min_values \in 0 .. MaxMinCount}
Partitions ==
    {NoneType} \cup Groupings \cup Windows
    \cup {WrappedDataFrame(1, g) :
             g \in {NoneType, GroupBy(<<"a">>), Window(<<"a">>, 1)}}
MinCounts == {<<>>} \cup {<<m>> : m \in -1 .. MaxMinCount}
AggExpressions ==
    {Str(<<"s", "u", "m">>),
     Expression__init__("AggregateFunctionExpression",
                        <<RawToken(<<"m", "a", "x", "(">>), Atom,
                          RawToken(<<")">>)>>)}

DerivedAggCalls ==
    {[dtype |-> dtype, expression |-> expression, fn |-> "_derived_agg_func",
      min_count |-> min_count, partition |-> partition,
      self |-> SeriesOf("int64", 1, group_by), skipna |-> skipna] :
        dtype \in {<<>>, <<"float64">>}, expression \in AggExpressions,
        min_count \in MinCounts, partition \in Partitions,
        group_by \in {NoneType} \cup Groupings \cup Windows,
        skipna \in BOOLEAN}

CallDerivedAgg ==
    /\ last.op = "init"
    /\ applied.fn = "_derived_agg_func"
    /\ Applied(_derived_agg_func(applied.self, applied.partition,
                                 applied.expression, applied.dtype,
                                 applied.skipna, applied.min_count))

\* copy_override on Series with and without a group_by and a sort order,
\* every argument left out or given, group_by as [None] too.
CopyCalls ==
    {[base_node |-> base_node, dtype |-> dtype, engine |-> engine,
      expression |-> expression, fn |-> "copy_override",
      group_by |-> group_by, index |-> index, name |-> name,
      self |-> Series("int64", "db1", 1, <<"i">>, <<"x">>, Atom,
                      self_group_by, self_sorted),
      sorted_ascending |-> sorted_ascending] :
        base_node \in {<<>>, <<2>>}, dtype \in {<<>>, <<"bool">>},
        engine \in {<<>>, <<"db2">>}, expression \in {<<>>, <<NonAtom>>},
        group_by \in {<<>>, <<NoneType>>, <<GroupBy(<<"b">>)>>},
        index \in {<<>>, <<<<>>>>, <<<<"j">>>>},
        name \in {<<>>, <<<<"y">>>>},
        self_group_by \in {NoneType, GroupBy(<<"a">>)},
        self_sorted \in {<<>>, <<TRUE>>},
        sorted_ascending \in {<<>>, <<TRUE>>, <<FALSE>>}}

CallCopyOverride ==
    /\ last.op = "init"
    /\ applied.fn = "copy_override"
    /\ Applied(copy_override(applied.self, applied.dtype, applied.engine,
                             applied.base_node, applied.index, applied.name,
                             applied.expression, applied.group_by,
                             applied.sorted_ascending))

\* An aggregate function with a min_count over a GroupBy, and the rows of
\* one group: up to MaxRows rows, with NULL or a number in the column.
MaxRows == 3
Rows ==
    UNION {[1 .. n -> {SqlNull, SqlInt(1), SqlInt(2)}] : n \in 0 .. MaxRows}

GroupValueCalls ==
    {[expression |-> expression, fn |-> "group value",
      min_count |-> min_count, partition |-> partition, rows |-> rows,
      self |-> SeriesOf("int64", 1, NoneType)] :
        expression \in {Str(<<"c", "o", "u", "n", "t">>),
                        Str(<<"s", "u", "m">>)},
        min_count \in MinCounts,
        partition \in {NoneType, GroupBy(<<"a">>)},
        rows \in Rows}

\* _derived_agg_func, and the value of the expression of the Series it
\* returns for the rows of the group.
CallGroupValue ==
    /\ last.op = "init"
    /\ applied.fn = "group value"
    /\ \A series \in {_derived_agg_func(applied.self, applied.partition,
                                         applied.expression, <<>>, TRUE,
                                         applied.min_count)} :
           Applied(IF IsRaised(series)
                   THEN series
                   ELSE SqlValue(series.expression, applied.rows))

InitSeries ==
    \E args \in {c \in BinaryCalls : c.self.dtype \in SelfDtypes(c.fn)}
                \cup DerivedAggCalls \cup CopyCalls \cup GroupValueCalls :
        Called(args)

NextSeries ==
    \/ CallArithmetic
    \/ CallComparator
    \/ CallBoolean
    \/ CallUuidComparator
    \/ CallDerivedAgg
    \/ CallCopyOverride
    \/ CallGroupValue

SpecSeries == InitSeries /\ [][NextSeries]_vars


\* ------------------------------------------------------------------ claims
\* The content of the written_to_db set of each entry of registry r, by name.
WrittenOf(es, hp) ==
    [n \in NamesOf(es) |-> hp[EntryOf(es, n).written_to_db]]

\* C1: when the second of three checkpoint statements is rejected during
\* execute_sql, the call returns nothing and the written_to_db set of every
\* entry is what it was before the call.
C1_FailedExecuteRestoresWritten ==
    ( /\ pc = "idle"
      /\ last = [op |-> "execute_sql", result |-> "DBError"]
      /\ Len(frame.sql_statements) = 3
      /\ frame.pos = 1 )
    => /\ ret = None
       /\ WrittenOf(entries[frame.self], heap)
              = WrittenOf(entries[frame.self], before)

\* C2: an add_savepoint under a name the registry holds changes neither the
\* entries nor any written_to_db set; it returns normally when snapshot and
\* materialization equal the entry's, and raises when either differs.
C2_AddExistingName ==
    [][ \A name \in FewNames, df \in FewFrames, m \in Materialization :
            ( /\ last'.op = "add_savepoint"
              /\ name \in NamesOf(entries[1])
              /\ add_savepoint(1, name, df, m) )
            => /\ entries' = entries
               /\ heap' = heap
               /\ LET existing == EntryOf(entries[1], name)
                  IN  last'.result =
                          IF /\ existing.df_original = df
                             /\ existing.materialization = m
                          THEN "ok" ELSE "ValueError" ]_vars

\* A second add_savepoint was refused while the registry holds an entry that
\* has been executed.
C2_Witness ==
    /\ last = [op |-> "add_savepoint", result |-> "ValueError"]
    /\ \E n \in NamesOf(entries[1]) : Written(1, n) # {}

\* C3: a merge that raises leaves the receiving registry as it was: no
\* entry copied in, no written_to_db set enlarged.
C3_FailedMergeChangesNothing ==
    [][ ( /\ last'.op = "merge"
          /\ last'.result = "ValueError" )
        => /\ entries' = entries
           /\ heap' = heap ]_vars

\* The result of self.merge(other), self = registry r, between the states
\* (es, hp) before and (es2, hp2) after.
MergePost(r, other, es, hp, es2, hp2) ==
    LET mine   == NamesOf(es[r])
        theirs == NamesOf(es[other])
    IN  /\ NamesOf(es2[r]) = mine \cup theirs
        /\ Len(es2[r]) = Cardinality(mine \cup theirs)
        /\ \A n \in theirs \ mine :
               LET e == EntryOf(es2[r], n)
                   o == EntryOf(es[other], n)
               IN  /\ e.df_original = o.df_original
                   /\ e.materialization = o.materialization
                   /\ hp2[e.written_to_db] = hp[o.written_to_db]
        /\ \A n \in theirs \cap mine :
               LET e == EntryOf(es2[r], n)
                   s == EntryOf(es[r], n)
                   o == EntryOf(es[other], n)
               IN  /\ e.df_original = s.df_original
                   /\ e.materialization = s.materialization
                   /\ hp2[e.written_to_db] =
                          hp[s.written_to_db] \cup hp[o.written_to_db]
        /\ \A n \in mine \ theirs :
               /\ EntryOf(es2[r], n) = EntryOf(es[r], n)
               /\ hp2[EntryOf(es2[r], n).written_to_db] =
                      hp[EntryOf(es[r], n).written_to_db]
        /\ es2[other] = es[other]
        /\ WrittenOf(es2[other], hp2) = WrittenOf(es[other], hp)

\* C4: a merge that returns normally leaves self with the names of both
\* registries, other's snapshot, materialization and written_to_db for the
\* names only other had, the union of both written_to_db sets for the names
\* both had, its own entries unchanged for the names only it had, and other
\* unchanged.
C4_MergeResult ==
    [][ \A r \in Regs, other \in Regs :
            ( /\ last'.op = "merge"
              /\ last'.result = "ok"
              /\ merge(r, other) )
            => MergePost(r, other, entries, heap, entries', heap') ]_vars

\* A merge has returned normally and the registries hold a common name whose
\* written_to_db is not empty, and a name only one of them holds.
C4_Witness ==
    /\ last = [op |-> "merge", result |-> "ok"]
    /\ \E n \in NamesOf(entries[1]) \cap NamesOf(entries[2]) :
           Written(1, n) # {}
    /\ NamesOf(entries[1]) # NamesOf(entries[2])

\* C5: update_savepoint of an existing entry changes nothing when the
\* materialization is the entry's; otherwise the entry keeps name, snapshot
\* and place, takes the new materialization and an empty written_to_db.
\* Every other entry and its written_to_db stay as they were.
C5_UpdateEffect ==
    [][ \A name \in FewNames, m \in Materialization :
            ( /\ last'.op = "update_savepoint"
              /\ name \in NamesOf(entries[1])
              /\ update_savepoint(1, name, m) )
            => LET current == EntryOf(entries[1], name)
                   i == IndexOf(entries[1], name)
               IN  /\ last'.result = "ok"
                   /\ Len(entries'[1]) = Len(entries[1])
                   /\ IF current.materialization = m
                      THEN /\ entries' = entries
                           /\ heap' = heap
                      ELSE /\ entries'[1][i].name = name
                           /\ entries'[1][i].df_original = current.df_original
                           /\ entries'[1][i].materialization = m
                           /\ heap'[entries'[1][i].written_to_db] = {}
                   /\ \A j \in DOMAIN entries[1] \ {i} :
                          /\ entries'[1][j] = entries[1][j]
                          /\ heap'[entries'[1][j].written_to_db] =
                                 heap[entries[1][j].written_to_db] ]_vars

\* An update_savepoint has emptied the written_to_db of one entry next to an
\* entry whose written_to_db is not empty.
C5_Witness ==
    /\ last = [op |-> "update_savepoint", result |-> "ok"]
    /\ \E n \in NamesOf(entries[1]) : Written(1, n) = {}
    /\ \E n \in NamesOf(entries[1]) : Written(1, n) # {}

\* C6: get_materialized_df of an existing entry raises exactly when the
\* engine's url is not in the entry's written_to_db, and changes neither the
\* entries nor any written_to_db set.
C6_GetMaterialized ==
    [][ \A name \in FewNames, e \in Urls :
            ( /\ last'.op = "get_materialized_df"
              /\ name \in NamesOf(entries[1])
              /\ get_materialized_df(1, e, name) )
            => /\ (last'.result # "ok") <=> (e \notin Written(1, name))
               /\ (last'.result = "ok") => ret'.engine = e
               /\ entries' = entries
               /\ heap' = heap ]_vars

\* get_materialized_df has raised for one engine although an entry is
\* materialized with another.
C6_Witness ==
    /\ last = [op |-> "get_materialized_df", result |-> "ValueError"]
    /\ \E n \in NamesOf(entries[1]) :
           Written(1, n) # {} /\ Written(1, n) # Urls

\* What a registry says about its entries, by name.
KindOf(es, n) == EntryOf(es, n).materialization
NodeOf(es, n) == EntryOf(es, n).df_original.base_node

\* The savepoint x is built on the savepoint y.
DependsOn(es, x, y) == NodeOf(es, y) \in Ancestors(NodeOf(es, x))

Position(s, x) == CHOOSE i \in DOMAIN s : s[i] = x

TablesAndViews(es) == {n \in NamesOf(es) : KindOf(es, n) \in {"TABLE", "VIEW"}}

\* C7: get_create_statements holds exactly the TABLE and VIEW entries in the
\* order of to_sql; get_drop_statements holds the same names in the reverse
\* order, so that no savepoint is dropped after one it is built on.  For a
\* (QUERY), b (TABLE, on a), c (VIEW, on b): create b, c and drop c, b.
C7_StatementOrder ==
    \A es \in {entries[1]} :
    \A sql \in {to_sql(es)}, creates \in {get_create_statements(es)},
       drop \in {Keys(get_drop_statements(es))} :
    \A all \in {Keys(sql)}, create \in {Keys(creates)} :
        /\ SeqToSet(create) = TablesAndViews(es)
        /\ Len(create) = Cardinality(TablesAndViews(es))
        /\ \A i, j \in DOMAIN create :
               i < j => Position(all, create[i]) < Position(all, create[j])
        /\ \A i \in DOMAIN create :
               creates[i] = sql[Position(all, create[i])]
        /\ drop = Reversed(create)
        /\ \A i, j \in DOMAIN drop :
               i < j => ~DependsOn(es, drop[j], drop[i])
        /\ ( /\ NamesOf(es) = {"a", "b", "c"}
             /\ KindOf(es, "a") = "QUERY"
             /\ KindOf(es, "b") = "TABLE"
             /\ KindOf(es, "c") = "VIEW"
             /\ DependsOn(es, "b", "a")
             /\ DependsOn(es, "c", "b") )
           => /\ create = <<"b", "c">>
              /\ drop = <<"c", "b">>

\* The registry holds a (QUERY), b (TABLE, on a) and c (VIEW, on b), added
\* in the order c, b, a.
C7_Witness ==
    /\ Keys(entries[1]) = <<"c", "b", "a">>
    /\ KindOf(entries[1], "a") = "QUERY"
    /\ KindOf(entries[1], "b") = "TABLE"
    /\ KindOf(entries[1], "c") = "VIEW"
    /\ DependsOn(entries[1], "b", "a")
    /\ DependsOn(entries[1], "c", "b")

\* C8: to_sql holds one statement per entry of the registry, keyed by the
\* entry's name and made from the entry's node and materialization, and no
\* savepoint comes before one it is built on.
C8_ToSqlOnePerEntry ==
    \A es \in {entries[1]} :
    \A sql \in {to_sql(es)} :
    \A all \in {Keys(sql)} :
        /\ Len(all) = Len(es)
        /\ SeqToSet(all) = NamesOf(es)
        /\ \A i \in DOMAIN sql :
               sql[i].sql = Sql(KindOf(es, all[i]), all[i], NodeOf(es, all[i]))
        /\ \A i, j \in DOMAIN all :
               i < j => ~DependsOn(es, all[i], all[j])

\* Three entries, two of them on the same node, one of them VIRTUAL, one
\* built on another and added before it.
C8_Witness ==
    LET es == entries[1]
    IN  /\ Len(es) = 3
        /\ \E x, y \in NamesOf(es) : x # y /\ NodeOf(es, x) = NodeOf(es, y)
        /\ \E x \in NamesOf(es) : KindOf(es, x) = "VIRTUAL"
        /\ DependsOn(es, es[1].name, es[3].name)

\* The calls of the current or latest execute_sql on its connection.
IsDropCall(c) ==
    /\ c.call = "execute"
    /\ c.sql # <<>>
    /\ \A k \in DOMAIN c.sql :
           c.sql[k].sql.verb \in {"drop table if exists", "drop view if exists"}

IsStmtCall(c) ==
    /\ c.call = "execute"
    /\ Len(c.sql) = 1
    /\ c.sql[1].sql.verb \in Materialization

DropCalls == {i \in DOMAIN conn : IsDropCall(conn[i])}
StmtCalls == SelectSeq(conn, IsStmtCall)
Commits == {i \in DOMAIN conn : conn[i].call = "commit"}

\* C9: with overwrite the drop statements of all TABLE and VIEW entries are
\* sent as one statement, right after the transaction has begun and before
\* any checkpoint statement; without overwrite no drop statement is sent;
\* when the drop is rejected no checkpoint statement is sent and no
\* written_to_db set has changed.
C9_DropFirst ==
    last.op = "execute_sql" =>
        \A es \in {entries[frame.self]} :
            /\ conn[1].call = "begin"
            /\ ~frame.overwrite => DropCalls = {}
            /\ DropCalls \subseteq {2}
            /\ \A i \in DropCalls :
                   /\ SeqToSet(Keys(conn[i].sql)) = TablesAndViews(es)
                   /\ Len(conn[i].sql) = Cardinality(TablesAndViews(es))
            /\ ( /\ frame.overwrite
                 /\ TablesAndViews(es) # {}
                 /\ pc = "loop" \/ StmtCalls # <<>> )
               => (2 \in DropCalls /\ conn[2].ok)
            /\ (2 \in DropCalls /\ ~conn[2].ok)
               => /\ StmtCalls = <<>>
                  /\ Commits = {}
                  /\ heap = before
                  /\ last.result = "DBError"

\* The drop of an execute_sql with overwrite was rejected, in a registry with
\* an entry executed before.
C9_Witness ==
    /\ last = [op |-> "execute_sql", result |-> "DBError"]
    /\ 2 \in DropCalls
    /\ ~conn[2].ok
    /\ \E n \in NamesOf(entries[1]) : Written(1, n) # {}

\* C10: an execute_sql begins one transaction, sends the checkpoint
\* statements one per call in the order of to_sql, and commits at most once:
\* as its last call, after every statement of to_sql was sent and accepted,
\* and never in a call in which a statement was rejected.
C10_CommitOnceAtEnd ==
    last.op = "execute_sql" =>
        \A sql \in {to_sql(entries[frame.self])} :
            /\ conn[1].call = "begin"
            /\ \A i \in DOMAIN conn : i > 1 => conn[i].call # "begin"
            /\ Len(StmtCalls) <= Len(sql)
            /\ \A k \in DOMAIN StmtCalls : StmtCalls[k].sql = <<sql[k]>>
            /\ \A i \in DOMAIN conn :
                   conn[i].call = "execute"
                       => IsDropCall(conn[i]) \/ IsStmtCall(conn[i])
            /\ Cardinality(Commits) <= 1
            /\ \A i \in Commits :
                   /\ i = Len(conn)
                   /\ \A j \in DOMAIN conn : conn[j].ok
                   /\ Len(StmtCalls) = Len(sql)
            /\ (\E i \in DOMAIN conn : ~conn[i].ok)
               => /\ Commits = {}
                  /\ conn[Len(conn)].call = "rollback"
            /\ last.result = "ok" => Commits # {}

\* An execute_sql with overwrite has dropped, sent three statements and
\* committed.
C10_Witness ==
    /\ last = [op |-> "execute_sql", result |-> "ok"]
    /\ 2 \in DropCalls
    /\ Len(StmtCalls) = 3
    /\ Commits = {Len(conn)}

\* The names of the statements the current or latest execute_sql has sent,
\* in the order it sent them.
Executed == [k \in DOMAIN StmtCalls |-> StmtCalls[k].sql[1].name]

\* C11: after a successful execute_sql(engine) the engine is in the
\* written_to_db set of every entry of the registry, so that
\* get_materialized_df(engine, name) succeeds for every name; the created list
\* returned holds exactly the TABLE and VIEW entries in the order their
\* statements were executed, and the data returned has exactly the QUERY
\* entries as keys.
C11_ExecuteResult ==
    [][ ( /\ last = [op |-> "execute_sql", result |-> "ok"]
          /\ pc = "idle" )
        => \A es \in {entries[1]} :
           \A made \in {SelectSeq(Executed,
                            LAMBDA n : KindOf(es, n) \in {"TABLE", "VIEW"})} :
               /\ \A n \in NamesOf(es) : frame.engine \in Written(1, n)
               /\ SeqToSet(Executed) = NamesOf(es)
               /\ Len(Executed) = Len(es)
               /\ ret.created =
                      [i \in 1 .. Len(made) |->
                          [name |-> made[i],
                           materialization |-> KindOf(es, made[i])]]
               /\ ret.data = {n \in NamesOf(es) : KindOf(es, n) = "QUERY"}
               /\ \A n \in NamesOf(es) :
                      ( /\ last'.op = "get_materialized_df"
                        /\ get_materialized_df(1, frame.engine, n) )
                      => last'.result = "ok" ]_vars

\* A successful execute_sql of two entries, both created, the one added
\* second executed first, with the second engine.
C11_Witness ==
    /\ last = [op |-> "execute_sql", result |-> "ok"]
    /\ frame.engine = "db2"
    /\ Len(entries[1]) = 2
    /\ Len(ret.created) = 2
    /\ ret.created[1].name = entries[1][2].name
    /\ ret.created[1].materialization # ret.created[2].materialization

\* A string of one or more characters, each of the class [A-Za-z0-9_].
WellFormed(name) ==
    /\ name # None
    /\ Chars(name) # <<>>
    /\ \A i \in DOMAIN Chars(name) : Chars(name)[i] \in WordChars

\* C12: after any sequence of add, update, remove, merge and execute calls,
\* failed ones included, every name under which a registry holds an entry is
\* a string of one or more characters of [A-Za-z0-9_], and no two entries of
\* a registry have the same name.
C12_NamesWellFormed ==
    \A r \in Regs :
        /\ \A i \in DOMAIN entries[r] : WellFormed(entries[r][i].name)
        /\ \A i, j \in DOMAIN entries[r] :
               entries[r][i].name = entries[r][j].name => i = j

\* The Expression an argument of construct stands for.
ArgExpr(arg) == IF isinstance(arg, "Expression") THEN arg ELSE arg.expression

\* The pieces with '{}' between them.
RECURSIVE JoinBraces(_)
JoinBraces(pieces) ==
    IF Len(pieces) = 1
    THEN pieces[1]
    ELSE pieces[1] \o <<"{", "}">> \o JoinBraces(Tail(pieces))

HasBraces(piece) ==
    \E i \in 1 .. Len(piece) - 1 : piece[i] = "{" /\ piece[i + 1] = "}"

\* C14: for every format string and argument list that construct accepts,
\* the data of the result is, in the order of the format string, the literal
\* pieces between the '{}' as RawTokens (empty pieces left out) and the
\* arguments, a NonAtomicExpression argument right after a RawToken '(' and
\* right before a RawToken ')', any other argument with no token added.
C14_Parenthesization ==
    (last.op = "construct" /\ last.result = "ok") =>
        \A segs \in {Split(applied.fmt)} :
            LET args == applied.args
                n == Len(args)
                out == ret.data
                NA(i) == isinstance(ArgExpr(args[i]), "NonAtomicExpression")
                Lits(k) == Cardinality({j \in 1 .. k : segs[j] # <<>>})
                NAs(k) == Cardinality({j \in 1 .. k : NA(j)})
                ArgPos(i) == Lits(i) + (i - 1) + 2 * NAs(i - 1)
                                 + (IF NA(i) THEN 2 ELSE 1)
                SegPos(k) == Lits(k) + (k - 1) + 2 * NAs(k - 1)
            IN  /\ Len(segs) = n + 1
                /\ JoinBraces(segs) = applied.fmt
                /\ \A k \in DOMAIN segs : ~HasBraces(segs[k])
                /\ ret.kind = applied.cls
                /\ Len(out) = Lits(n + 1) + n + 2 * NAs(n)
                /\ \A i \in 1 .. n :
                       /\ out[ArgPos(i)] = ArgExpr(args[i])
                       /\ NA(i) => /\ out[ArgPos(i) - 1] = RawToken(<<"(">>)
                                   /\ out[ArgPos(i) + 1] = RawToken(<<")">>)
                /\ \A k \in 1 .. n + 1 :
                       segs[k] # <<>> => out[SegPos(k)] = RawToken(segs[k])

\* construct('{}a{}', series, expression) with a Series whose expression is
\* NonAtomic and an Expression that is not.
C14_Witness ==
    /\ last = [op |-> "construct", result |-> "ok"]
    /\ applied.fmt = <<"{", "}", "a", "{", "}">>
    /\ applied.args = <<ASeries(NonAtom), Atom>>
    /\ Len(ret.data) = 5

\* C15: an Expression that is neither an AggregateFunctionExpression nor a
\* WindowFunctionExpression has an aggregate function exactly when one of the
\* Expressions it wraps has, whatever their classes; an
\* AggregateFunctionExpression always has one and a WindowFunctionExpression
\* never.
C15_AggregatePropagation ==
    last.op = "properties" =>
        \A X \in {applied.self} :
            LET wrapped == ExpressionsIn(X)
            IN  ret.has_aggregate_function =
                    CASE X.kind = "AggregateFunctionExpression" -> TRUE
                      [] X.kind = "WindowFunctionExpression" -> FALSE
                      [] OTHER -> \E i \in DOMAIN wrapped :
                                      has_aggregate_function(wrapped[i])

\* An Expression around A and B, where A is an Expression around an
\* AggregateFunctionExpression and B a WindowFunctionExpression around one.
C15_Witness ==
    /\ last.op = "properties"
    /\ applied.self.kind = "Expression"
    /\ Len(applied.self.data) = 2
    /\ applied.self.data[1] \in Mids
    /\ applied.self.data[1].kind = "Expression"
    /\ applied.self.data[1].data[1].kind = "AggregateFunctionExpression"
    /\ applied.self.data[2] \in Mids
    /\ applied.self.data[2].kind = "WindowFunctionExpression"
    /\ applied.self.data[2].data[1].kind = "AggregateFunctionExpression"
    /\ ret.has_aggregate_function

\* The classes that do not decide is_constant by themselves.
NotConstMarkers ==
    ExpressionClasses \ {"ConstValueExpression", "AggregateFunctionExpression",
                         "WindowFunctionExpression"}

\* C16: an Expression of a class that does not decide is_constant by itself
\* is constant exactly when it wraps at least one Expression and every
\* Expression it wraps is constant; one made of tokens only is not constant.
C16_ConstantPropagation ==
    (last.op = "properties" /\ applied.self.kind \in NotConstMarkers) =>
        \A X \in {applied.self} :
            LET wrapped == ExpressionsIn(X)
            IN  /\ ret.is_constant =
                       ( /\ Len(wrapped) > 0
                         /\ \A i \in DOMAIN wrapped : is_constant(wrapped[i]) )
                /\ Len(wrapped) = 0 => ~ret.is_constant

\* An Expression around a token and an Expression that is constant only
\* through the ConstValueExpression it wraps.
C16_Witness ==
    /\ last.op = "properties"
    /\ applied.self.kind = "Expression"
    /\ Len(applied.self.data) = 2
    /\ applied.self.data[1].kind = "RawToken"
    /\ applied.self.data[2] \in Mids
    /\ applied.self.data[2].kind = "NonAtomicExpression"
    /\ applied.self.data[2].data[1].kind = "ConstValueExpression"
    /\ ret.is_constant

\* C17 as stated: an Expression of any class is an independent subquery if
\* it is an IndependentSubqueryExpression, or if it wraps at least one
\* Expression and every Expression it wraps is an independent subquery.
C17_BottomUpAnyClass ==
    last.op = "properties" =>
        \A X \in {applied.self} :
            LET wrapped == ExpressionsIn(X)
            IN  ( \/ X.kind = "IndependentSubqueryExpression"
                  \/ /\ Len(wrapped) > 0
                     /\ \A i \in DOMAIN wrapped :
                            is_independent_subquery(wrapped[i]) )
                => ret.is_independent_subquery

\* C17, amended: a SingleValueExpression or ConstValueExpression is an
\* independent subquery exactly when it wraps at least one Expression and
\* every Expression it wraps is one; an Expression of any other class is an
\* independent subquery exactly when it is an IndependentSubqueryExpression,
\* whatever it wraps.
C17_IndependentSubquery ==
    last.op = "properties" =>
        \A X \in {applied.self} :
            LET wrapped == ExpressionsIn(X)
            IN  ret.is_independent_subquery =
                    IF X.kind \in {"SingleValueExpression",
                                   "ConstValueExpression"}
                    THEN /\ Len(wrapped) > 0
                         /\ \A i \in DOMAIN wrapped :
                                is_independent_subquery(wrapped[i])
                    ELSE X.kind = "IndependentSubqueryExpression"

\* An Expression of the base class around two
\* IndependentSubqueryExpressions: not an independent subquery.
C17_Witness ==
    /\ last.op = "properties"
    /\ applied.self.kind = "Expression"
    /\ Len(applied.self.data) = 2
    /\ \A i \in 1 .. 2 :
           applied.self.data[i].kind = "IndependentSubqueryExpression"
    /\ ~ret.is_independent_subquery

\* No ColumnReferenceToken in the Expression, at any depth.
RECURSIVE NoColumnReference(_)
NoColumnReference(e) ==
    \A i \in DOMAIN e.data :
        IF isinstance(e.data[i], "Expression")
        THEN NoColumnReference(e.data[i])
        ELSE e.data[i].kind # "ColumnReferenceToken"

\* C18: for every Expression and every table name, None and '' among them,
\* resolving the resolved Expression again gives an Expression equal to it,
\* with the same SQL text, and the resolved Expression has no
\* ColumnReferenceToken at any depth.
C18_IdempotentResolution ==
    last.op = "resolve_column_references" =>
        \A once \in {ret} :
        \A twice \in {resolve_column_references(once, applied.table_name)} :
            /\ Expression__eq__(twice, once)
            /\ Expression__eq__(once, twice)
            /\ NoColumnReference(once)
            /\ \A sql \in {Expression_to_sql(once, NoneType)} :
                   /\ ~IsRaised(sql)
                   /\ Expression_to_sql(twice, NoneType) = sql
                   /\ Expression_to_sql(applied.self, applied.table_name) = sql

\* A named ConstValueExpression with a column reference whose name has a
\* quote in it and with an Expression with another two levels down,
\* resolved with a table name.
C18_Witness ==
    /\ last.op = "resolve_column_references"
    /\ applied.table_name = Str(<<"t">>)
    /\ applied.self.kind = "ConstValueExpression"
    /\ applied.self.name = "n"
    /\ Len(applied.self.data) = 2
    /\ applied.self.data[1] = ColumnReferenceToken(<<"c", "\"">>)
    /\ applied.self.data[2] \in RMids
    /\ ~NoColumnReference(applied.self.data[2])
    /\ ret.name = None

\* The error a raising call leaves, or "ok".
Failed == last.result # "ok"

\* C13: a binary operator of a Series, of any of the families, on two Series
\* with different base nodes fails and returns no Series, whatever the two
\* dtypes and the list of supported dtypes: with the ValueError of the
\* base node check, or, for the operators that refuse an empty list first,
\* with their NotImplementedError; never with the TypeError of the dtype
\* check.
C13_BaseRelationGuard ==
    ( /\ last.op \in {"_arithmetic_operation", "_comparator_operation",
                      "_boolean_operator", "SeriesUuid._comparator_operation"}
      /\ applied.other.kind = "Series"
      /\ applied.other.base_node # applied.self.base_node )
    => /\ Failed
       /\ IsRaised(ret)
       /\ ret.kind # "Series"
       /\ last.result =
              IF /\ applied.other_dtypes = <<>>
                 /\ last.op # "SeriesUuid._comparator_operation"
              THEN "NotImplementedError"
              ELSE "ValueError"

\* A comparison of an int64 Series with a uuid Series of another base node,
\* uuid not among the supported dtypes.
C13_Witness ==
    /\ last = [op |-> "_comparator_operation", result |-> "ValueError"]
    /\ applied.self.dtype = "int64"
    /\ applied.other.kind = "Series"
    /\ applied.other.dtype = "uuid"
    /\ applied.other.base_node # applied.self.base_node
    /\ applied.other_dtypes = <<"bool", "int64">>
    /\ IsRaised(ret)

\* The context _derived_agg_func of the state works with.
Context == AggPartition(applied.self, applied.partition)

\* The call of the state is one with a window as context and a min_count.
WindowAndMinCount ==
    /\ last.op = "_derived_agg_func"
    /\ applied.skipna
    /\ applied.min_count # <<>>
    /\ isinstance(Context, "Window")

\* C19 as stated: with a window as context, a call with a min_count that is
\* not the min_values of the window fails, whatever the min_count.
C19_AnyMinCount ==
    ( /\ WindowAndMinCount
      /\ applied.min_count[1] # Context.min_values )
    => Failed

\* C19, amended: with a window as context, a call (with skipna) with a
\* min_count fails exactly when min_count is greater than 0 and is not the
\* min_values of the window, and then with NotImplementedError; a min_count
\* of 0 or less is not compared with the window.
C19_MinCountWindow ==
    WindowAndMinCount =>
        /\ Failed = ( /\ applied.min_count[1] > 0
                      /\ applied.min_count[1] # Context.min_values )
        /\ Failed => last.result = "NotImplementedError"
        /\ ~Failed => /\ ret.kind = "Series"
                      /\ ret.expression.kind = "WindowFunctionExpression"

\* min_count = 0 with a window of min_values = 2 passed as the partition:
\* the call returns a Series.
C19_Witness ==
    /\ WindowAndMinCount
    /\ applied.partition = Window(<<"a">>, 2)
    /\ applied.min_count = <<0>>
    /\ ~Failed
    /\ ret.kind = "Series"

\* The call of the state is one of a Series with a pending group_by and a
\* partition that is passed and is a GroupBy other than the pending one.
PendingMismatch ==
    /\ last.op = "_derived_agg_func"
    /\ applied.skipna
    /\ applied.self.group_by # NoneType
    /\ applied.partition # NoneType
    /\ isinstance(Context, "GroupBy")
    /\ Context # applied.self.group_by

\* C20 as stated: a call of a Series with a pending group_by and a
\* partition that differs from it fails, be the partition a plain GroupBy
\* or a Window.
C20_MismatchAlike ==
    PendingMismatch => Failed /\ IsRaised(ret)

\* C20, amended: a call of a Series with a pending group_by and a partition
\* that differs from it fails with ValueError when the partition is a plain
\* GroupBy; when the partition is a Window the two are not compared: the
\* call fails only on min_count, and else returns a Series that still has
\* the pending group_by and the index of the Series.
C20_PendingMismatch ==
    PendingMismatch =>
        IF ~isinstance(Context, "Window")
        THEN last.result = "ValueError" /\ IsRaised(ret)
        ELSE /\ last.result \in {"ok", "NotImplementedError"}
             /\ Failed = ( /\ applied.min_count # <<>>
                           /\ applied.min_count[1] > 0
                           /\ applied.min_count[1] # Context.min_values )
             /\ ~Failed => /\ ret.kind = "Series"
                           /\ ret.group_by = applied.self.group_by
                           /\ ret.index = applied.self.index

\* A Series grouped by 'b' aggregated over a Window on 'a': a Series comes
\* back, its group_by still the one on 'b'.
C20_Witness ==
    /\ PendingMismatch
    /\ applied.self.group_by = GroupBy(<<"b">>)
    /\ applied.partition = Window(<<"a">>, 1)
    /\ applied.min_count = <<>>
    /\ ret.kind = "Series"
    /\ ret.group_by = GroupBy(<<"b">>)

\* The paths of classes from the Expression e down to every
\* AggregateFunctionExpression in it, e's own class first.
RECURSIVE AggPaths(_)
AggPaths(e) ==
    (IF e.kind = "AggregateFunctionExpression" THEN {<<e.kind>>} ELSE {})
    \cup UNION {{<<e.kind>> \o p : p \in AggPaths(ExpressionsIn(e)[i])} :
                   i \in DOMAIN ExpressionsIn(e)}

\* C26: a WindowFunctionExpression has no aggregate function and is not
\* constant, whatever it wraps, and has a windowed aggregate function; and an
\* Expression of any class has an aggregate function exactly when an
\* AggregateFunctionExpression is reached in it (itself included) without
\* going through a WindowFunctionExpression.
C26_WindowNeverAggregate ==
    last.op = "properties" =>
        \A X \in {applied.self} :
            /\ X.kind = "WindowFunctionExpression" =>
                   /\ ~ret.has_aggregate_function
                   /\ ~ret.is_constant
                   /\ ret.has_windowed_aggregate_function
            /\ ret.has_aggregate_function =
                   \E p \in AggPaths(X) :
                       \A i \in DOMAIN p : p[i] # "WindowFunctionExpression"

\* An Expression around a WindowFunctionExpression around an
\* AggregateFunctionExpression, and a constant next to it.
C26_Witness ==
    /\ last.op = "properties"
    /\ applied.self.kind = "Expression"
    /\ Len(applied.self.data) = 2
    /\ applied.self.data[1] \in Mids
    /\ applied.self.data[1].kind = "WindowFunctionExpression"
    /\ applied.self.data[1].data[1].kind = "AggregateFunctionExpression"
    /\ applied.self.data[2].kind = "ConstValueExpression"
    /\ ~ret.has_aggregate_function
    /\ ret.has_windowed_aggregate_function
    /\ ~ret.is_constant

\* C30: an Expression that is constant is single valued.
C30_ConstantIsSingleValue ==
    last.op = "properties" => (ret.is_constant => ret.is_single_value)

\* An Expression of the base class that is constant through what it wraps:
\* a ConstValueExpression and a NonAtomicExpression around one.
C30_Witness ==
    /\ last.op = "properties"
    /\ applied.self.kind = "Expression"
    /\ Len(applied.self.data) = 2
    /\ applied.self.data[1].kind = "ConstValueExpression"
    /\ applied.self.data[2] \in Mids
    /\ applied.self.data[2].kind = "NonAtomicExpression"
    /\ applied.self.data[2].data[1].kind = "ConstValueExpression"
    /\ ret.is_constant
    /\ ret.is_single_value

\* The children of an Expression with the class of every Expression among
\* them, at every depth, left out.
RECURSIVE Canon(_)
Canon(e) ==
    [i \in DOMAIN e.data |->
        IF isinstance(e.data[i], "Expression")
        THEN [kind |-> "Expression", data |-> Canon(e.data[i])]
        ELSE e.data[i]]

\* C23: two Expressions compare equal exactly when their children are equal
\* one by one, tokens by class and text, Expressions again by their
\* children (the classes and names of the Expressions play no part); and two
\* Expressions that compare equal have the same hash and give the same SQL
\* text for the same table name.
C23_StructuralEquality ==
    last.op = "__eq__" =>
        /\ ret.eq = (Canon(applied.self) = Canon(applied.other))
        /\ ret.eq => /\ ret.hash_eq
                     /\ ~IsRaised(ret.sql_self)
                     /\ ret.sql_self = ret.sql_other

\* A SingleValueExpression and a ConstValueExpression, each around a column
\* reference and an Expression, of different classes, with the same text.
C23_Witness ==
    /\ last.op = "__eq__"
    /\ applied.self.kind = "SingleValueExpression"
    /\ applied.other.kind = "ConstValueExpression"
    /\ applied.self.data =
           <<ColumnReferenceToken(<<"x">>),
             Expression__init__("Expression", <<RawToken(<<"x">>)>>)>>
    /\ applied.other.data =
           <<ColumnReferenceToken(<<"x">>),
             Expression__init__("NonAtomicExpression", <<RawToken(<<"x">>)>>)>>
    /\ applied.table_name = Str(<<"t">>)
    /\ ret.eq
    /\ ret.hash_eq
    /\ ret.sql_self = ret.sql_other

\* The fields of a Series that copy_override takes as a plain value.
PlainFields ==
    {"engine", "base_node", "index", "name", "expression", "group_by"}

\* C22: the Series copy_override returns has, for every field, the value of
\* the Series it is called on when the argument is left out or None and the
\* value passed otherwise, False and an empty index among the values
\* passed; its group_by is the first element of the list passed, and is None
\* only when [None] is passed or when nothing is passed and the group_by of
\* the Series is None.
C22_CopyOverride ==
    last.op = "copy_override" =>
        /\ ret.kind = "Series"
        /\ \A f \in PlainFields :
               ret[f] = IF applied[f] = <<>>
                        THEN applied.self[f] ELSE applied[f][1]
        /\ ret.sorted_ascending =
               IF applied.sorted_ascending = <<>>
               THEN applied.self.sorted_ascending
               ELSE applied.sorted_ascending
        /\ ret.group_by = NoneType =>
               \/ applied.group_by = <<NoneType>>
               \/ applied.group_by = <<>> /\ applied.self.group_by = NoneType
        /\ applied.group_by = <<NoneType>> => ret.group_by = NoneType

\* copy_override(index={}, group_by=[None], sorted_ascending=False) on a
\* sorted Series with a group_by.
C22_Witness ==
    /\ last.op = "copy_override"
    /\ applied.self.group_by = GroupBy(<<"a">>)
    /\ applied.self.sorted_ascending = <<TRUE>>
    /\ applied.index = <<<<>>>>
    /\ applied.group_by = <<NoneType>>
    /\ applied.sorted_ascending = <<FALSE>>
    /\ applied.name = <<>>
    /\ ret.index = <<>>
    /\ ret.group_by = NoneType
    /\ ret.sorted_ascending = <<FALSE>>
    /\ ret.name = applied.self.name

\* What the call of the state returns when other is passed as `other`.
BinaryResult(other) ==
    CASE applied.fn = "_arithmetic_operation" ->
             _arithmetic_operation(applied.self, other, <<"+">>,
                                   Fmt(<<"(">>, <<"+">>, <<"(">>, <<")">>),
                                   applied.other_dtypes, applied.dtype)
      [] applied.fn = "_comparator_operation" ->
             _comparator_operation(applied.self, other, <<"=">>,
                                   applied.other_dtypes)
      [] applied.fn = "_boolean_operator" ->
             _boolean_operator(applied.self, other, <<"A", "N", "D">>,
                               applied.other_dtypes)
      [] applied.fn = "SeriesUuid._comparator_operation" ->
             SeriesUuid_comparator_operation(applied.self, other, <<"=">>,
                                             applied.other_dtypes)

\* C24: a binary operation of a Series with a value that is not a Series
\* gives what it gives with the Series const_to_series makes of the value on
\* the base node of the left hand side, so the same checks apply; and a bool
\* Series compared or combined by a boolean operator with True, bool among
\* the supported dtypes, gives a Series of dtype bool.
C24_LiteralOperands ==
    ( /\ last.op \in {"_arithmetic_operation", "_comparator_operation",
                      "_boolean_operator", "SeriesUuid._comparator_operation"}
      /\ applied.other.kind # "Series" )
    => \A coerced \in {const_to_series(applied.self, applied.other)} :
           /\ coerced.kind = "Series"
           /\ coerced.base_node = applied.self.base_node
           /\ ret = BinaryResult(coerced)
           /\ ( /\ last.op \in {"_comparator_operation", "_boolean_operator"}
                /\ applied.self.dtype = "bool"
                /\ applied.other.kind = "bool"
                /\ \E i \in DOMAIN applied.other_dtypes :
                       applied.other_dtypes[i] = "bool" )
              => ret.kind = "Series" /\ ret.dtype = "bool"

\* The Expression _derived_agg_func makes of its argument expression.
Built ==
    IF applied.expression.kind = "str"
    THEN construct("Expression",
                   applied.expression.val \o <<"(", "{", "}", ")">>,
                   <<applied.self>>)
    ELSE applied.expression

\* C25: a call of _derived_agg_func that returns gives, with a Window as
\* context, a Series with the index and the group_by of the Series it is
\* called on and with the window expression of the built expression; with a
\* plain GroupBy as context (passed, pending on the Series, or the one over
\* the whole input) a Series with the index of the context and the context
\* as group_by.  Engine, base node and name are those of the Series, the
\* dtype is the one passed or else that of the Series.
C25_ResultShape ==
    (last.op = "_derived_agg_func" /\ ~Failed) =>
        \A ctx \in {Context} :
            /\ ret.kind = "Series"
            /\ ret.engine = applied.self.engine
            /\ ret.base_node = applied.self.base_node
            /\ ret.name = applied.self.name
            /\ ret.dtype = IF applied.dtype = <<>>
                           THEN applied.self.dtype ELSE applied.dtype[1]
            /\ IF isinstance(ctx, "Window")
               THEN /\ ret.index = applied.self.index
                    /\ ret.group_by = applied.self.group_by
                    /\ ret.expression = get_window_expression(ctx, Built)
               ELSE /\ ctx.kind = "GroupBy"
                    /\ ret.index = ctx.index
                    /\ ret.group_by = ctx
                    /\ applied.partition = NoneType =>
                           ctx = IF applied.self.group_by # NoneType
                                 THEN applied.self.group_by
                                 ELSE DummyGroupBy

\* sum over a Window on 'a' of a Series with no group_by: the index stays,
\* the expression is a window expression.
C25_Witness ==
    /\ last.op = "_derived_agg_func"
    /\ ~Failed
    /\ applied.partition = Window(<<"a">>, 1)
    /\ applied.self.group_by = NoneType
    /\ applied.expression.kind = "str"
    /\ ret.index = <<"i">>
    /\ ret.group_by = NoneType
    /\ ret.expression.kind = "WindowFunctionExpression"

\* C21: for a GroupBy as context, the expression of the Series
\* _derived_agg_func returns has, for the rows of a group, the value of the
\* aggregate function when the number of rows of the group in which the
\* column is not NULL is at least min_count, and is NULL otherwise; without
\* a min_count, or with one of 0 or less, it has the value of the aggregate
\* function.
C21_MinCountGroup ==
    last.op = "group value" =>
        LET n == Len(NonNull(applied.rows))
            min_count == IF applied.min_count = <<>>
                         THEN 0 ELSE applied.min_count[1]
        IN  ret = IF n >= min_count
                  THEN AggregateValue(applied.expression.val \o <<"(">>,
                                      applied.rows)
                  ELSE SqlNull

\* count with min_count = 5 for a group of three rows, none of them NULL:
\* the value is NULL.
C21_Witness ==
    /\ last = [op |-> "group value", result |-> "ok"]
    /\ applied.expression = Str(<<"c", "o", "u", "n", "t">>)
    /\ applied.min_count = <<5>>
    /\ Len(applied.rows) = 3
    /\ Len(NonNull(applied.rows)) = 3
    /\ ret = SqlNull

C28_TruthfulRecord ==
    ( /\ pc = "idle"
      /\ last = [op |-> "execute_sql", result |-> "DBError"]
      /\ Commits = {} )
    => \A n \in NamesOf(entries[frame.self]) :
           Written(frame.self, n)
               \subseteq before[EntryOf(entries[frame.self], n).written_to_db]

\* Registry r differs between the two states of a step, in its entries or
\* in the content of a written_to_db set.
Changed(r) ==
    \/ entries'[r] # entries[r]
    \/ WrittenOf(entries'[r], heap') # WrittenOf(entries[r], heap)

\* The step is (part of) an operation on registry r.
OperationOn(r) ==
    \/ /\ last'.op = "add_savepoint"
       /\ \E name \in NameInputs, df \in OneFrame, m \in FewKinds :
              add_savepoint(r, name, df, m)
    \/ /\ last'.op = "update_savepoint"
       /\ \E name \in NameInputs \ {None}, m \in FewKinds :
              update_savepoint(r, name, m)
    \/ /\ last'.op = "remove_savepoint"
       /\ \E name \in NameInputs \ {None} : remove_savepoint(r, name)
    \/ /\ last'.op = "merge"
       /\ \E other \in Regs : merge(r, other)
    \/ /\ last'.op = "execute_sql"
       /\ frame'.self = r

\* C29: every step is an operation on one registry that changes no entry
\* and no written_to_db set of the other registry, whatever merges came
\* before.
C29_RegistriesIndependent ==
    [][ \E r \in Regs :
            /\ OperationOn(r)
            /\ \A o \in Regs \ {r} : ~Changed(o) ]_vars

\* Both registries hold the entry 'a'; registry 1 has been executed and has
\* the engine in its written_to_db, registry 2 has not.
C29_Witness ==
    /\ last = [op |-> "execute_sql", result |-> "ok"]
    /\ frame.self = 1
    /\ "a" \in NamesOf(entries[1]) \cap NamesOf(entries[2])
    /\ Written(1, "a") = {"db1"}
    /\ Written(2, "a") = {}

=============================================================================
